---- MODULE Spec2Model ----
(***************************************************************************)
(* Energy accounting, tariff and solar estimation of the SHEMS backend.    *)
(*                                                                         *)
(* Energies are fixed-point integers: one unit is 1/KWh of a kWh (1e-5     *)
(* kWh), so that round(x, 4) and round(x, 2) both do something.  Money     *)
(* rates are in hundredths of a rupee.  Python's round() works on the      *)
(* binary double: off a decimal tie it gives the nearest multiple, on a    *)
(* tie the double next to it decides and either neighbour can come out.    *)
(* The code being deterministic, the same inputs round the same way: the   *)
(* inputs whose double lies above the tie are a parameter of the request.  *)
(***************************************************************************)
EXTENDS Integers, Sequences, FiniteSets, TLC

VARIABLES
    acc,        \* the accumulate loop: call site, readings, position, prev, total, return value
    now,        \* timezone.localtime(timezone.now()): [year, month, day, tod]
    devices,    \* Device.objects.filter(user=request.user)
    store,      \* TelemetryReading rows of each device, in created_at order
    tariff,     \* UserSettings.tariff_pkr_per_kwh, in hundredths of a rupee
    agg,        \* the aggregate request in flight: its next database access and its locals
    queries,    \* the readings each TelemetryReading query of that request returned
    resp,       \* the Response of the last request
    tier,       \* a call of calculate_tariff: arguments, position, return value
    sol,        \* a call of estimate_solar_kw: arguments, position, outcome
    cfg,        \* SolarConfig.objects.filter(user=request.user, enabled=True).first()
    rng,        \* a range or history request: its limit parameter, position, response
    wx          \* the weather cache, the stored solar samples, the clock and the requests on them

vars == <<acc, now, devices, store, tariff, agg, queries, resp, tier, sol, cfg, rng, wx>>

extVars == <<cfg, rng, wx>>

aggVars == <<now, devices, store, tariff, agg, queries, resp>>

----------------------------------------------------------------------------
(* Units and rounding *)

KWh == 100 * 1000

\* round(total, 4) in calc_today_kwh_for_device
TodayDigits == 4

\* round(total, 2) in calc_monthly_kwh
MonthDigits == 2

RECURSIVE Pow10(_)
Pow10(n) == IF n = 0 THEN 1 ELSE 10 * Pow10(n - 1)

Quantum(ndigits) == KWh \div Pow10(ndigits)

\* x lies exactly halfway between two multiples of q
IsTie(x, q) == 2 * (x % q) = q

\* x to the nearest multiple of q; on a tie the double decides: up iff up
RoundTo(x, q, up) ==
    LET lo == x \div q
        r  == x - lo * q
    IN  IF 2 * r < q THEN lo * q
        ELSE IF 2 * r > q THEN (lo + 1) * q
        ELSE IF up THEN (lo + 1) * q ELSE lo * q

\* Python's round(x, ndigits) of an energy
round(x, ndigits, up) == RoundTo(x, Quantum(ndigits), up)

\* round(kwh * tariff, 2): energy units times hundredths of a rupee, to
\* hundredths of a rupee; ups holds the <<kwh, rate>> whose product rounds up
\* on a tie
round_cost(kwh, rate, ups) == RoundTo(kwh * rate, KWh, <<kwh, rate>> \in ups) \div KWh

\* the <<kwh, rate>> among pairs whose product is on a tie
TieCosts(pairs) == {p \in pairs : IsTie(p[1] * p[2], KWh)}

----------------------------------------------------------------------------
(* Meter delta accumulator: the loop shared by calc_today_kwh_for_device    *)
(* and the two calc_monthly_kwh.  prev is <<>> for None, <<v>> otherwise.   *)
(* energy_kwh is a non-null FloatField, so float(e) never raises.           *)

\* the mutant of LoopStart with "prev = 0.0" for "prev = None"
LoopStartPrevZero == [prev |-> <<0>>, total |-> 0]

\* total = 0.0; prev = None
LoopStart == [prev |-> <<>>, total |-> 0]

\* the mutant of LoopBody that subtracts a negative delta (no "if delta > 0")
LoopBodySigned(st, e) ==
    LET cur == e
    IN  [prev  |-> <<cur>>,
         total |-> IF st.prev # <<>> THEN st.total + (cur - st.prev[1]) ELSE st.total]

\* the mutant of LoopBody that advances prev only on a positive delta
LoopBodyStickyPrev(st, e) ==
    LET cur == e
    IN  IF st.prev = <<>> THEN [prev |-> <<cur>>, total |-> st.total]
        ELSE IF cur - st.prev[1] > 0
             THEN [prev |-> <<cur>>, total |-> st.total + (cur - st.prev[1])]
             ELSE st

\* the mutant of LoopBody that writes "total = delta" for "total += delta"
LoopBodyOverwrite(st, e) ==
    LET cur == e
    IN  [prev  |-> <<cur>>,
         total |-> IF st.prev # <<>> /\ cur - st.prev[1] > 0
                   THEN cur - st.prev[1] ELSE st.total]

\* one iteration of "for e in readings"
LoopBody(st, e) ==
    LET cur   == e
        delta == IF st.prev # <<>> THEN cur - st.prev[1] ELSE 0
    IN  [prev  |-> <<cur>>,
         total |-> IF st.prev # <<>> /\ delta > 0 THEN st.total + delta ELSE st.total]

RECURSIVE Loop(_, _)
Loop(readings, st) ==
    IF readings = <<>> THEN st
    ELSE Loop(Tail(readings), LoopBody(st, Head(readings)))

\* the whole function body after the query: loop, then round; ups holds the
\* sample sequences whose total rounds up on a tie
accumulate(readings, ndigits, ups) ==
    round(Loop(readings, LoopStart).total, ndigits, readings \in ups)

\* the sample sequences among seqs whose total is on a tie
TieSums(seqs, ndigits) ==
    {s \in seqs : IsTie(Loop(s, LoopStart).total, Quantum(ndigits))}

Digits(site) == IF site = "today" THEN TodayDigits ELSE MonthDigits

\* no accumulator call in progress
AccIdle == [site |-> "none", readings |-> <<>>, i |-> 0, st |-> LoopStart,
            pc |-> "idle", ret |-> 0]


----------------------------------------------------------------------------
(* Calendar: a datetime is [year, month, day, tod], tod the time of day;   *)
(* datetimes compare field by field, as Python's do.                        *)

DtLt(a, b) ==
    \/ a.year < b.year
    \/ a.year = b.year /\ a.month < b.month
    \/ a.year = b.year /\ a.month = b.month /\ a.day < b.day
    \/ a.year = b.year /\ a.month = b.month /\ a.day = b.day /\ a.tod < b.tod

DtLe(a, b) == a = b \/ DtLt(a, b)

\* the months of a datetime since year 0
MonthIndex(dt) == dt.year * 12 + (dt.month - 1)

\* now.replace(day=1, hour=0, minute=0, second=0, microsecond=0)
month_floor(dt) == [dt EXCEPT !.day = 1, !.tod = 0]

\* the mutant of subtract_month that keeps the year in January
subtract_month_same_year(md) ==
    IF md.month = 1 THEN [md EXCEPT !.month = 12] ELSE [md EXCEPT !.month = @ - 1]

\* "Subtract one month"
subtract_month(md) ==
    IF md.month = 1 THEN [md EXCEPT !.year = @ - 1, !.month = 12]
    ELSE [md EXCEPT !.month = @ - 1]

\* for _ in range(i): subtract one month
RECURSIVE go_back(_, _)
go_back(md, i) == IF i = 0 THEN md ELSE go_back(subtract_month(md), i - 1)

\* month_date of iteration i
month_date(dt, i) == go_back(month_floor(dt), i)

\* "Calculate next month start"
month_end(md) ==
    IF md.month = 12 THEN [md EXCEPT !.year = @ + 1, !.month = 1, !.day = 1]
    ELSE [md EXCEPT !.month = @ + 1, !.day = 1]

\* month_date.strftime("%Y-%m")
strftime(md) == <<md.year, md.month>>

----------------------------------------------------------------------------
(* Telemetry queries and the aggregator *)

Energies(rows) == [k \in 1..Len(rows) |-> rows[k].energy_kwh]

\* the mutant of month_rows that reads the last row before the window too
month_rows_chained(d, month_start, end) ==
    LET upto   == SelectSeq(store[d], LAMBDA r : DtLt(r.created_at, end))
        before == Len(SelectSeq(store[d], LAMBDA r : DtLt(r.created_at, month_start)))
    IN  SubSeq(upto, IF before = 0 THEN 1 ELSE before, Len(upto))

\* the mutant of month_rows whose upper bound is created_at__lte
month_rows_closed(d, month_start, end) ==
    SelectSeq(store[d], LAMBDA r : DtLe(month_start, r.created_at) /\ DtLe(r.created_at, end))

\* filter(device, created_at__gte=month_start, created_at__lt=month_end).order_by("created_at")
month_rows(d, month_start, end) ==
    SelectSeq(store[d], LAMBDA r : DtLe(month_start, r.created_at) /\ DtLt(r.created_at, end))

\* filter(device, created_at__gte=start_local, created_at__lte=end_local).order_by("created_at")
today_rows(d, start_local, end_local) ==
    SelectSeq(store[d], LAMBDA r : DtLe(start_local, r.created_at) /\ DtLe(r.created_at, end_local))

\* two querysets ordered by created_at as one: rows created at the same instant
\* come in either order, the database being free to choose
RECURSIVE merged(_, _)
merged(a, b) ==
    IF a = <<>> THEN {b}
    ELSE IF b = <<>> THEN {a}
    ELSE (IF DtLe(Head(a).created_at, Head(b).created_at)
          THEN {<<Head(a)>> \o m : m \in merged(Tail(a), b)} ELSE {})
         \cup (IF DtLe(Head(b).created_at, Head(a).created_at)
               THEN {<<Head(b)>> \o m : m \in merged(a, Tail(b))} ELSE {})

\* the rows of the devices D in ascending created_at order: every order the
\* database can give them
RECURSIVE readings_of(_)
readings_of(D) ==
    IF D = {} THEN {<<>>}
    ELSE LET d == CHOOSE d \in D : TRUE
         IN  UNION {merged(store[d], m) : m \in readings_of(D \ {d})}

\* TelemetryReading.objects.filter(device__user=request.user).order_by("-created_at"),
\* oldest first: the rows of all the user's devices
user_readings == readings_of(devices)

\* calc_monthly_kwh after its query: the loop and the rounding on the rows read
calc_monthly_kwh(readings, ups) == accumulate(Energies(readings), MonthDigits, ups)

\* calc_today_kwh_for_device after its query
calc_today_kwh_for_device(readings, ups) == accumulate(Energies(readings), TodayDigits, ups)

RECURSIVE SumOver(_, _)
SumOver(S, f) ==
    IF S = {} THEN 0
    ELSE LET x == CHOOSE x \in S : TRUE IN f[x] + SumOver(S \ {x}, f)

SumSeq(s, field) == SumOver(DOMAIN s, [k \in DOMAIN s |-> s[k][field]])

Range(s) == {s[k] : k \in DOMAIN s}

Min(a, b) == IF a <= b THEN a ELSE b

Max0(x) == IF x > 0 THEN x ELSE 0

\* get(): months=6
TariffMonths == 6

\* get(): months=12
ReportMonths == 12

None == <<>>
Some(x) == <<x>>

\* the mutant of calculate_tariff with "<" for "<=" at every bound
calculate_tariff_strict(units, is_protected) ==
    IF units < 50 * KWh THEN (IF is_protected THEN Some(395) ELSE None)
    ELSE IF units < 100 * KWh THEN (IF is_protected THEN Some(774) ELSE Some(2244))
    ELSE IF units < 200 * KWh THEN (IF is_protected THEN Some(1301) ELSE Some(2891))
    ELSE IF units < 300 * KWh THEN (IF is_protected THEN None ELSE Some(3310))
    ELSE Some(3310)

\* TariffCalculatorAPI.calculate_tariff: PKR per kWh in hundredths, or None
calculate_tariff(units, is_protected) ==
    IF units <= 50 * KWh THEN (IF is_protected THEN Some(395) ELSE None)
    ELSE IF units <= 100 * KWh THEN (IF is_protected THEN Some(774) ELSE Some(2244))
    ELSE IF units <= 200 * KWh THEN (IF is_protected THEN Some(1301) ELSE Some(2891))
    ELSE IF units <= 300 * KWh THEN (IF is_protected THEN None ELSE Some(3310))
    ELSE Some(3310)

\* the mutant of all_under_200 with "<=" for "<"
all_under_200_inclusive(monthly_usage) ==
    \A k \in 1..Len(monthly_usage) : monthly_usage[k].kwh <= 200 * KWh

\* the mutant of all_under_200 that leaves the current month out
all_under_200_past_months(monthly_usage) ==
    \A k \in 2..Len(monthly_usage) : monthly_usage[k].kwh < 200 * KWh

\* all(month["kwh"] < 200 for month in monthly_usage)
all_under_200(monthly_usage) ==
    \A k \in 1..Len(monthly_usage) : monthly_usage[k].kwh < 200 * KWh

NoResponse == [kind |-> "none"]

DeviceIds == {1, 2}

\* no enabled SolarConfig row: .first() is None
CfgNone == [enabled |-> FALSE, installed_capacity_kw |-> 0, place |-> 1]

----------------------------------------------------------------------------
(* The aggregate requests, one database access after the other.  Every query  *)
(* is a statement of its own on an autocommit connection: between two of them *)
(* another request can commit a write.  agg is the request in flight: pc is   *)
(* the database access it makes next, the other fields are its local          *)
(* variables; queries holds the readings it has fetched.  What follows the    *)
(* last access is computation on the data fetched, and belongs to its step.   *)

\* a clock value no request has read
Epoch == [year |-> 1970, month |-> 1, day |-> 1, tod |-> 0]

\* the local variables of one function that walks the months: whether
\* devices.exists() held, the tariff and the clock it read, and the devices its
\* loop iterates (the queryset is evaluated once, when the loop first runs)
NoLocals == [exists |-> FALSE, tariff |-> 0, now |-> Epoch, devices |-> <<>>]

\* no aggregate request: the endpoint (api), the next database access (pc), the
\* function that makes it (fn), its months argument, the device_id parameter,
\* the number of writes committed when the request began, the loop position
\* (month i, device k), the locals of the running function, the locals
\* get_monthly_reports had, and the solar configuration read
AggNone == [api |-> "none", pc |-> "idle", fn |-> "none", months |-> 0,
            device_id |-> None, began |-> 0, i |-> 0, k |-> 0,
            loc |-> NoLocals, reports |-> NoLocals, solar_config |-> CfgNone]

\* the request is between its first and its last statement
InFlight(q) == q.pc \notin {"idle", "done", "failed"}

\* a queryset without order_by comes in primary-key order
RECURSIVE ById(_)
ById(S) ==
    IF S = {} THEN <<>>
    ELSE LET d == CHOOSE d \in S : \A o \in S : d <= o IN <<d>> \o ById(S \ {d})

\* the window of the next readings query: today up to now, or the month of
\* iteration i
Window(fr) ==
    IF fr.fn = "today"
    THEN [from |-> [fr.loc.now EXCEPT !.tod = 0], to |-> fr.loc.now]
    ELSE [from |-> month_date(fr.loc.now, fr.i),
          to   |-> month_end(month_date(fr.loc.now, fr.i))]

\* the next readings query and the rows it returns
Query(fr) ==
    LET d == fr.loc.devices[fr.k]
        w == Window(fr)
    IN  [fn |-> fr.fn, device |-> d, i |-> fr.i, from |-> w.from, to |-> w.to,
         rows |-> IF fr.fn = "today" THEN today_rows(d, w.from, w.to)
                  ELSE month_rows(d, w.from, w.to)]

\* the rows function fn fetched for device d and month i
Fetched(qs, fn, d, i) ==
    (CHOOSE q \in qs : q.fn = fn /\ q.device = d /\ q.i = i).rows

\* the loop position after the query at (i, k): get_device_breakdown walks the
\* months of one device after the other, the others the devices of one month
\* after the other
advance(fr) ==
    IF fr.fn = "breakdown"
    THEN (IF fr.i + 1 < fr.months THEN [fr EXCEPT !.i = @ + 1]
          ELSE [fr EXCEPT !.i = 0, !.k = @ + 1])
    ELSE (IF fr.k < Len(fr.loc.devices) THEN [fr EXCEPT !.k = @ + 1]
          ELSE [fr EXCEPT !.i = @ + 1, !.k = 1])

\* the loops have no query left
loop_over(fr) ==
    IF fr.fn = "breakdown" THEN fr.k > Len(fr.loc.devices) ELSE fr.i >= fr.months

\* the sample sequences fetched whose total is on a tie
fetched_ties(qs, ndigits) == TieSums({Energies(q.rows) : q \in qs}, ndigits)

\* month_total of iteration i: the sum of calc_monthly_kwh over the devices
month_total(qs, fn, devs, i, ups) ==
    SumOver(Range(devs), [d \in Range(devs) |-> calc_monthly_kwh(Fetched(qs, fn, d, i), ups)])

\* TariffCalculatorAPI.get_monthly_usage(user, months), most recent month first;
\* month_total is a sum of hundredths, which round(.., 2) leaves as it is
get_monthly_usage(qs, loc, months, ups) ==
    IF ~loc.exists THEN <<>>
    ELSE [k \in 1..months |->
            [month |-> strftime(month_date(loc.now, k - 1)),
             kwh   |-> round(month_total(qs, "usage", loc.devices, k - 1, ups),
                             MonthDigits, FALSE)]]

\* the Response of TariffCalculatorAPI.get
tariff_response(monthly_usage) ==
    IF monthly_usage = <<>>
    THEN [kind |-> "tariff", calculated_tariff |-> None,
          is_protected |-> None, current_month_units |-> 0,
          monthly_usage |-> <<>>, message |-> "No usage data available"]
    ELSE LET is_protected      == all_under_200(monthly_usage)
             calculated_tariff == calculate_tariff(monthly_usage[1].kwh, is_protected)
         IN  [kind |-> "tariff", calculated_tariff |-> calculated_tariff,
              is_protected |-> Some(is_protected),
              current_month_units |-> monthly_usage[1].kwh,
              monthly_usage |-> monthly_usage,
              message |-> IF calculated_tariff # None THEN "None"
                          ELSE "Unable to calculate tariff"]

\* the Response of TelemetryTodaySummaryAPI.get; home_total_kwh is a sum of
\* ten-thousandths, which round(.., 4) leaves as it is
today_response(qs, loc, ups, cups) ==
    LET devs           == Range(loc.devices)
        today_kwh      == [d \in devs |->
                              calc_today_kwh_for_device(Fetched(qs, "today", d, 0), ups)]
        home_total_kwh == round(SumOver(devs, today_kwh), TodayDigits, FALSE)
    IN  [kind |-> "today",
         date |-> <<loc.now.year, loc.now.month, loc.now.day>>,
         tariff_pkr_per_kwh |-> loc.tariff,
         devices |-> [d \in devs |->
                        [today_kwh |-> today_kwh[d],
                         cost_pkr  |-> round_cost(today_kwh[d], loc.tariff, cups)]],
         home_total_kwh |-> home_total_kwh,
         home_total_cost_pkr |-> round_cost(home_total_kwh, loc.tariff, cups)]

\* the <<kwh, rate>> products of one today summary that are on a tie
today_cost_ties(qs, loc, ups) ==
    LET devs      == Range(loc.devices)
        today_kwh == [d \in devs |->
                         calc_today_kwh_for_device(Fetched(qs, "today", d, 0), ups)]
    IN  TieCosts({<<today_kwh[d], loc.tariff>> : d \in devs}
                 \cup {<<round(SumOver(devs, today_kwh), TodayDigits, FALSE), loc.tariff>>})

\* month_total_kwh of every month: a sum of hundredths, which round(.., 2)
\* leaves as it is
month_total_kwhs(qs, loc, months, ups) ==
    [k \in 1..months |->
        round(month_total(qs, "reports", loc.devices, k - 1, ups), MonthDigits, FALSE)]

\* MonthlyReportsAPI.get_monthly_reports(user, months), most recent month first
get_monthly_reports(qs, loc, months, ups, cups) ==
    IF ~loc.exists THEN <<>>
    ELSE [k \in 1..months |->
            LET month_total_kwh == month_total_kwhs(qs, loc, months, ups)[k]
            IN  [month    |-> strftime(month_date(loc.now, k - 1)),
                 kwh      |-> month_total_kwh,
                 cost_pkr |-> round_cost(month_total_kwh, loc.tariff, cups)]]

\* what calc_monthly_kwh returned to get_device_breakdown for device d, month by
\* month
device_cells(qs, d, months, ups) ==
    [k \in 1..months |-> calc_monthly_kwh(Fetched(qs, "breakdown", d, k - 1), ups)]

\* total_kwh of one device in get_device_breakdown: total_kwh += calc_monthly_kwh(..)
\* over the months
device_total_kwh(cells) == SumOver(DOMAIN cells, cells)

\* the summands that decide the double total_kwh: adding 0.0 changes nothing
summands(cells) == SelectSeq(cells, LAMBDA c : c # 0)

\* round(total_kwh * tariff, 2) of get_device_breakdown.  total_kwh is the float
\* sum of the months, not rounded: with one summand it is that summand's double
\* and the product rounds as a month's does; with more, the double next to a tie
\* depends on the summands, and bups holds the <<summands, rate>> that round up
breakdown_cost(total_kwh, cells, rate, cups, bups) ==
    IF Len(summands(cells)) <= 1 THEN round_cost(total_kwh, rate, cups)
    ELSE RoundTo(total_kwh * rate, KWh, <<summands(cells), rate>> \in bups) \div KWh

\* MonthlyReportsAPI.get_device_breakdown(user, months): one entry per device,
\* the empty list when there is no device
get_device_breakdown(qs, loc, months, ups, cups, bups) ==
    IF ~loc.exists THEN <<>>
    ELSE [d \in Range(loc.devices) |->
            LET cells     == device_cells(qs, d, months, ups)
                total_kwh == device_total_kwh(cells)
            IN  [device_id |-> d,
                 kwh       |-> round(total_kwh, MonthDigits, FALSE),
                 cost_pkr  |-> breakdown_cost(total_kwh, cells, loc.tariff, cups, bups)]]

\* the <<kwh, rate>> products of one report that are on a tie: the months' and
\* the one-summand devices'
report_cost_ties(qs, fr, ups) ==
    TieCosts((IF fr.reports.exists
              THEN {<<month_total_kwhs(qs, fr.reports, fr.months, ups)[k], fr.reports.tariff>>
                       : k \in 1..fr.months}
              ELSE {})
             \cup (IF fr.loc.exists
                   THEN {<<device_total_kwh(device_cells(qs, d, fr.months, ups)), fr.loc.tariff>>
                            : d \in Range(fr.loc.devices)}
                   ELSE {}))

\* the <<summands, rate>> of the devices with several summands whose product is
\* on a tie
breakdown_cost_ties(qs, fr, ups) ==
    IF ~fr.loc.exists THEN {}
    ELSE {<<summands(device_cells(qs, d, fr.months, ups)), fr.loc.tariff>>
             : d \in {e \in Range(fr.loc.devices) :
                        LET cells == device_cells(qs, e, fr.months, ups)
                        IN  /\ Len(summands(cells)) > 1
                            /\ IsTie(device_total_kwh(cells) * fr.loc.tariff, KWh)}}

\* (installed_capacity_kw * 4 * days_in_period) * 0.7 with days_in_period = 365:
\* capacity in thousandths of a kW, the result in energy units
estimated_solar_kwh(capacity) == capacity * 4 * 365 * (7 * (KWh \div 10000))

\* the mutant of solar_total_kwh without the cap at half of the total
solar_total_kwh_uncapped(c, total_kwh) ==
    IF c.enabled THEN 2 * estimated_solar_kwh(c.installed_capacity_kw) ELSE 0

\* solar_total_kwh of get(): twice its value, so that half of an odd total is exact
solar_total_kwh(c, total_kwh) ==
    IF c.enabled THEN Min(2 * estimated_solar_kwh(c.installed_capacity_kw), total_kwh) ELSE 0

\* grid_total_kwh of get(), twice its value
grid_total_kwh(c, total_kwh) ==
    IF c.enabled THEN Max0(2 * total_kwh - solar_total_kwh(c, total_kwh)) ELSE 2 * total_kwh

\* a request begins: nothing fetched, no response
Begin(api, fn, months, device_id) ==
    [AggNone EXCEPT !.api = api, !.fn = fn, !.months = months, !.device_id = device_id,
                    !.began = Len(wx.writes)]

\* a request can begin
Ready == ~InFlight(agg) /\ resp = NoResponse

\* the request is over
Done(fr) == [fr EXCEPT !.pc = "done"]

\* no write has been committed since the request began
NoRace == agg.began = Len(wx.writes)

\* a write of one of the kinds has been committed since the request began
Raced(kinds) == \E n \in (agg.began + 1)..Len(wx.writes) : wx.writes[n] \in kinds

\* function fr.fn has made its last query, qs being the readings fetched: the
\* monthly usage goes into the response of its caller, the today summary is
\* computed, get_monthly_reports returns to get(), which calls
\* get_device_breakdown, and get_device_breakdown returns to get(), which reads
\* the solar configuration
Return(fr, qs) ==
    CASE fr.fn = "usage" ->
            /\ \E ups \in SUBSET fetched_ties(qs, MonthDigits) :
                  LET monthly_usage == get_monthly_usage(qs, fr.loc, fr.months, ups)
                  IN  resp' = IF fr.api = "tariff" THEN tariff_response(monthly_usage)
                              ELSE [kind |-> "usage", months |-> fr.months,
                                    monthly_usage |-> monthly_usage]
            /\ agg' = Done(fr)
      [] fr.fn = "today" ->
            /\ \E ups \in SUBSET fetched_ties(qs, TodayDigits) :
               \E cups \in SUBSET today_cost_ties(qs, fr.loc, ups) :
                  resp' = today_response(qs, fr.loc, ups, cups)
            /\ agg' = Done(fr)
      [] fr.fn = "reports" ->
            /\ agg' = [fr EXCEPT !.fn = "breakdown", !.pc = "exists", !.i = 0, !.k = 1,
                                 !.reports = fr.loc, !.loc = NoLocals]
            /\ resp' = resp
      [] fr.fn = "breakdown" ->
            /\ agg' = [fr EXCEPT !.pc = "config", !.i = 0, !.k = 1]
            /\ resp' = resp

\* devices.exists() of function fr.fn (lines 71, 190, 239): without a device the
\* function returns []; get_monthly_usage goes on to read the clock, and with
\* months = 0 its loop, which would evaluate the queryset, never runs; the two
\* functions of the report go on to read the settings
devices_exist(fr, qs) ==
    IF devices = {} THEN Return(fr, qs)
    ELSE IF fr.fn = "usage"
         THEN LET seen == [fr EXCEPT !.loc.exists = TRUE, !.loc.now = now]
              IN  IF fr.months = 0 THEN Return(seen, qs)
                  ELSE /\ agg' = [seen EXCEPT !.pc = "devices"]
                       /\ resp' = resp
         ELSE /\ agg' = [fr EXCEPT !.loc.exists = TRUE, !.pc = "settings"]
              /\ resp' = resp

\* TariffCalculatorAPI.get up to its first query, the exists() of
\* get_monthly_usage(request.user, months=6)
TariffGet ==
    /\ Ready
    /\ queries' = {}
    /\ devices_exist(Begin("tariff", "usage", TariffMonths, None), {})
    /\ UNCHANGED <<acc, now, devices, store, tariff, tier, sol, extVars>>

\* the largest months argument
MaxMonths == 13

\* get_monthly_usage(user, months) called on its own, up to its first query
UsageCall ==
    /\ Ready
    /\ queries' = {}
    /\ \E months \in 0..MaxMonths : devices_exist(Begin("usage", "usage", months, None), {})
    /\ UNCHANGED <<acc, now, devices, store, tariff, tier, sol, extVars>>

\* MonthlyReportsAPI.get up to its first query, the exists() of
\* get_monthly_reports(request.user, months=12)
ReportGet ==
    /\ Ready
    /\ queries' = {}
    /\ devices_exist(Begin("report", "reports", ReportMonths, None), {})
    /\ UNCHANGED <<acc, now, devices, store, tariff, tier, sol, extVars>>

\* a device_id parameter that is no number
NotANumber == <<0, 0>>

\* the device_id parameters of the today summary: absent, the user's device 1,
\* 3, which is no device of the user, and a text that is no number
TodayDeviceIds == {None, Some(1), Some(3), NotANumber}

\* TelemetryTodaySummaryAPI.get up to its first query: it reads the clock and,
\* in get_user_tariff, the settings; devices_qs.filter(id=device_id) raises
\* ValueError on a device_id that is no number, which nothing catches
TodayGet ==
    /\ Ready
    /\ queries' = {}
    /\ \E device_id \in TodayDeviceIds :
          LET fr == [Begin("today", "today", 1, device_id)
                       EXCEPT !.loc.exists = TRUE, !.loc.now = now, !.loc.tariff = tariff]
          IN  IF device_id = NotANumber
              THEN /\ agg' = [fr EXCEPT !.pc = "failed"]
                   /\ resp' = [kind |-> "error", status |-> 500, detail |-> "ValueError"]
              ELSE /\ agg' = [fr EXCEPT !.pc = "devices"]
                   /\ resp' = resp
    /\ UNCHANGED <<acc, now, devices, store, tariff, tier, sol, extVars>>

\* the exists() of get_device_breakdown (line 239)
DevicesExist ==
    /\ agg.pc = "exists"
    /\ devices_exist(agg, queries)
    /\ UNCHANGED <<acc, now, devices, store, tariff, queries, tier, sol, extVars>>

\* UserSettings.objects.get_or_create(user=user) and the clock, in
\* get_monthly_reports (194-198) and in get_device_breakdown (242-246)
SettingsGet ==
    /\ agg.pc = "settings"
    /\ agg' = [agg EXCEPT !.pc = "devices", !.loc.tariff = tariff, !.loc.now = now]
    /\ UNCHANGED <<acc, now, devices, store, tariff, queries, resp, tier, sol, extVars>>

\* the queryset of the devices is evaluated: list(devices_qs) of the today
\* summary, filtered by device_id when given (a device_id that matches nothing
\* is answered with 404), or the first "for device in devices" of the other
\* functions.  Without a device no loop makes a query
DevicesList ==
    /\ agg.pc = "devices"
    /\ LET devices_qs == IF agg.device_id = None THEN devices
                         ELSE devices \cap {agg.device_id[1]}
           listed     == [agg EXCEPT !.loc.devices = ById(devices_qs), !.i = 0, !.k = 1]
       IN  IF agg.device_id # None /\ devices_qs = {}
           THEN /\ resp' = [kind |-> "error", status |-> 404, detail |-> "Device not found."]
                /\ agg' = Done(listed)
           ELSE IF devices_qs = {} THEN Return(listed, queries)
           ELSE /\ agg' = [listed EXCEPT !.pc = "readings"]
                /\ resp' = resp
    /\ UNCHANGED <<acc, now, devices, store, tariff, queries, tier, sol, extVars>>

\* the TelemetryReading query of calc_monthly_kwh or calc_today_kwh_for_device
\* for the device and the window the loops have reached
ReadingsQuery ==
    /\ agg.pc = "readings"
    /\ LET qs == queries \cup {Query(agg)}
       IN  /\ queries' = qs
           /\ IF loop_over(advance(agg)) THEN Return(advance(agg), qs)
              ELSE /\ agg' = advance(agg)
                   /\ resp' = resp
    /\ UNCHANGED <<acc, now, devices, store, tariff, tier, sol, extVars>>

\* SolarConfig.objects.filter(user=request.user, enabled=True).first(), the last
\* query of MonthlyReportsAPI.get, and the Response
SolarConfigFirst ==
    /\ agg.pc = "config"
    /\ \E ups \in SUBSET fetched_ties(queries, MonthDigits) :
       \E cups \in SUBSET report_cost_ties(queries, agg, ups) :
       \E bups \in SUBSET breakdown_cost_ties(queries, agg, ups) :
          LET reports    == get_monthly_reports(queries, agg.reports, agg.months, ups, cups)
              device_breakdown ==
                  get_device_breakdown(queries, agg.loc, agg.months, ups, cups, bups)
              solar_config == cfg
              total_kwh  == SumSeq(reports, "kwh")
              total_cost == SumSeq(reports, "cost_pkr")
              n          == Len(reports)
              solar2     == solar_total_kwh(solar_config, total_kwh)
              grid2      == grid_total_kwh(solar_config, total_kwh)
              q          == Quantum(MonthDigits)
              \* the quotients and halves of this response that are on a tie
              ties == {s \in {"kwh", "cost"} :
                          \/ s = "kwh" /\ n > 0 /\ IsTie(total_kwh, n * q)
                          \/ s = "cost" /\ n > 0 /\ IsTie(total_cost, n)}
              \* solar and grid are the same double when the offset is half of
              \* the total, and then round the same way
              halves == {v \in {solar2, grid2} : IsTie(v, 2 * q)}
          IN  \E up \in SUBSET ties : \E hups \in SUBSET halves :
              /\ resp' = [kind |-> "report",
                          monthly_reports |-> reports,
                          total_kwh |-> round(total_kwh, MonthDigits, FALSE),
                          total_cost_pkr |-> total_cost,
                          average_monthly_kwh |->
                              IF n > 0 THEN RoundTo(total_kwh, n * q, "kwh" \in up) \div n
                              ELSE 0,
                          average_monthly_cost |->
                              IF n > 0 THEN RoundTo(total_cost, n, "cost" \in up) \div n ELSE 0,
                          device_breakdown |-> device_breakdown,
                          solar_kwh |-> RoundTo(solar2, 2 * q, solar2 \in hups) \div 2,
                          grid_kwh  |-> RoundTo(grid2, 2 * q, grid2 \in hups) \div 2]
              /\ agg' = Done([agg EXCEPT !.solar_config = solar_config])
    /\ UNCHANGED <<acc, now, devices, store, tariff, queries, tier, sol, extVars>>

----------------------------------------------------------------------------
(* The requests that write what the aggregates read.  resp, queries and the   *)
(* answer in rng describe the data they were computed from: a write drops them *)

Reply(status, items) == [status |-> status, body |-> items]

\* a behaviour holds one write: no write has been committed yet
CanWrite == wx.writes = <<>>

\* a write of the given kind is committed
Written(w, kind) == [w EXCEPT !.writes = Append(@, kind)]

\* the answers of the last requests no longer describe the data; a request in
\* flight keeps what it has fetched
Forget ==
    /\ resp' = NoResponse
    /\ queries' = IF InFlight(agg) THEN queries ELSE {}
    /\ rng' = IF rng.pc = "done"
              THEN [rng EXCEPT !.pc = "call", !.out = Reply(0, <<>>), !.began = 0,
                               !.device = None, !.cfg = CfgNone]
              ELSE rng

\* tariffs a PUT or PATCH of the settings carries, in hundredths of a rupee:
\* 12.50, and the rejected 50.01
TariffInputs == {1250, 5001}

\* UserSettingsAPI.put and .patch with tariff_pkr_per_kwh: the serializer
\* rejects a value below 0 or above 50, and the row stays as it was
SettingsPut ==
    /\ CanWrite
    /\ \E value \in TariffInputs :
          tariff' = IF value < 0 \/ value > 5000 THEN tariff ELSE value
    /\ wx' = Written(wx, "settings")
    /\ Forget
    /\ UNCHANGED <<acc, now, devices, store, agg, tier, sol, cfg>>

\* the coordinates (latitude, longitude) of the model
Places == {1, 2}

\* the bodies of a PUT of the solar configuration, every key given: solar
\* disabled, and 3 W enabled at the first place
ConfigInputs ==
    {[enabled |-> FALSE, installed_capacity_kw |-> 2000, place |-> 1],
     [enabled |-> TRUE, installed_capacity_kw |-> 3, place |-> 1]}

\* SolarConfigAPI.put: the row takes the values of the body
SolarConfigPut ==
    /\ CanWrite
    /\ \E body \in ConfigInputs : cfg' = body
    /\ wx' = Written(wx, "config")
    /\ Forget
    /\ UNCHANGED <<acc, now, devices, store, tariff, agg, tier, sol>>

\* DeviceViewSet.create: one more device of the user, without readings
DeviceCreate ==
    /\ CanWrite
    /\ \E d \in DeviceIds \ devices : devices' = devices \cup {d}
    /\ wx' = Written(wx, "create")
    /\ Forget
    /\ UNCHANGED <<acc, now, store, tariff, agg, tier, sol, cfg>>

\* DeviceViewSet.destroy: the device goes, and on_delete=CASCADE takes its
\* readings with it, the latest reading of the user among them
DeviceDestroy ==
    /\ CanWrite
    /\ \E d \in devices :
          /\ devices' = devices \ {d}
          /\ store' = [store EXCEPT ![d] = <<>>]
    /\ wx' = Written(wx, "destroy")
    /\ Forget
    /\ UNCHANGED <<acc, now, tariff, agg, tier, sol, cfg>>

\* timezone.now(): now is the instant of clock 0, and the clock counts the
\* minutes since
timezone_now == [now EXCEPT !.tod = @ + wx.clock]

\* the minute on the clock of a datetime
clock_of(dt) ==
    ((MonthIndex(dt) - MonthIndex(now)) * 31 + (dt.day - now.day)) * 1440 + (dt.tod - now.tod)

\* the meter value of an uploaded reading: 4 kWh
UploadEnergies == {4 * KWh}

\* the power of an uploaded reading: 1500.5 W, halfway between two thousandths of a kW
UploadPowers == {15005}

\* TelemetryUploadAPI.post with the token of device d and a valid body: one more
\* row of the device with the energy_kwh and the power of the body (voltage and
\* current, which no request of the model reads, are left out), stamped with the
\* clock by auto_now_add.  The row is the latest of the user's devices from then on
TelemetryUpload ==
    /\ CanWrite
    /\ \E d \in devices : \E e \in UploadEnergies : \E p \in UploadPowers :
          store' = [store EXCEPT ![d] = Append(@, [created_at |-> timezone_now,
                                                   energy_kwh |-> e, power |-> p])]
    /\ wx' = Written(wx, "upload")
    /\ Forget
    /\ UNCHANGED <<acc, now, devices, tariff, agg, tier, sol, cfg>>

----------------------------------------------------------------------------
(* Spec: the tariff calculator and the today summary over bounded stores *)

\* the most readings a store holds
MaxReadings == 4

Dt(y, m, d, t) == [year |-> y, month |-> m, day |-> d, tod |-> t]

\* the clock of every request: 15 March 2025, tod 2
Now0 == Dt(2025, 3, 15, 2)

\* the calendar month b months before dt's, counted without the walker
MonthsBefore(dt, b) ==
    LET idx == MonthIndex(dt) - b IN [year |-> idx \div 12, month |-> (idx % 12) + 1]

\* the first instant and the 15th of the months b
MonthInstants(months) ==
    {Dt(MonthsBefore(Now0, b).year, MonthsBefore(Now0, b).month, day, 0)
        : b \in months, day \in {1, 15}}

\* creation instants of the stores of two devices: the oldest month inside the
\* 6-month range
OldestInstants == MonthInstants({TariffMonths - 1})

\* creation instants of the stores of one device: the current month and the
\* oldest month inside the range
MonthlyInstants == MonthInstants({0, TariffMonths - 1})

\* the 15th of the oldest month inside the range, and the month just before it
OutsideInstants ==
    MonthInstants({TariffMonths}) \cup {Dt(MonthsBefore(Now0, TariffMonths - 1).year,
                                           MonthsBefore(Now0, TariffMonths - 1).month, 15, 0)}

\* creation instants of the daily stores: yesterday, the first instant of today,
\* later today, and now itself
TodayInstants ==
    {Dt(Now0.year, Now0.month, Now0.day - 1, 2), Dt(Now0.year, Now0.month, Now0.day, 0),
     Dt(Now0.year, Now0.month, Now0.day, 1), Now0}

\* two devices: 0 and 100 kWh
MonthlyEnergies == {0, 100 * KWh}

\* one device: 0, 199.99 and 200 kWh
SingleEnergies == {0, 19999 * (KWh \div 100), 200 * KWh}

\* 3.0 and 3.8 kWh
TodayEnergies == {3 * KWh, 38 * (KWh \div 10)}

\* 12.50 PKR per kWh (0 is the field's default)
TariffValues == {1250}

\* rows of one device in created_at order (creation instants are distinct)
RECURSIVE SortRows(_)
SortRows(R) ==
    IF R = {} THEN <<>>
    ELSE LET first == CHOOSE r \in R : \A q \in R : DtLe(r.created_at, q.created_at)
         IN  <<first>> \o SortRows(R \ {first})

\* every store of at most MaxReadings rows created at the given instants
Stores(ids, instants, energies) ==
    LET Slots == ids \X instants
        Filled(S, e) ==
            [d \in DeviceIds |->
                SortRows({[created_at |-> sl[2], energy_kwh |-> e[sl], power |-> 0]
                             : sl \in {x \in S : x[1] = d}})]
    IN  UNION {{Filled(S, e) : e \in [S -> energies]}
                 : S \in {T \in SUBSET Slots : Cardinality(T) <= MaxReadings}}

EmptyStore == [d \in DeviceIds |-> <<>>]

\* no calculate_tariff call
TierIdle == [units |-> 0, is_protected |-> FALSE, pc |-> "idle", ret |-> None]

\* no estimate_solar_kw call
SolIdle == [capacity_kw |-> 0, cloud_cover |-> 0, now |-> 0, sunrise |-> 0, sunset |-> 0,
            pc |-> "idle", err |-> "", kw |-> 0]

\* no range or history request
RngIdle == [pc |-> "idle"]

\* the solar status requests of the model
Reqs == {1, 2}

\* a request that has not started: the next statement (pc), the caller of
\* get_weather (api), the coordinates and the capacity read from the solar
\* configuration, the primary key (seen) and the row (before) read at line 11,
\* the clock of is_fresh, whether the provider was contacted and its answer, the
\* row get_weather returned, the estimate, the home power, the recency check,
\* the response and the primary key of the stored sample
ReqIdle == [pc |-> "idle", api |-> "none", place |-> 0, capacity_kw |-> 0,
            seen |-> 0, before |-> None, checked_at |-> 0, contacted |-> FALSE,
            answer |-> None, weather |-> None, solar_kw |-> 0, home_kw |-> 0,
            recent |-> FALSE, out |-> NoResponse, stored |-> 0]

\* no weather or solar status activity: clock 0, no WeatherCache row, no
\* SolarGeneration row, no request started, no write, no request that
\* overlapped another
WxIdle == [clock |-> 0, rows |-> <<>>, gens |-> {}, started |-> 0,
           writes |-> <<>>, overlapped |-> FALSE, reqs |-> [r \in Reqs |-> ReqIdle]]

ExtIdle ==
    /\ cfg = CfgNone
    /\ rng = RngIdle
    /\ wx = WxIdle

AggIdle ==
    /\ now = Now0
    /\ devices = {}
    /\ store = EmptyStore
    /\ tariff = 0
    /\ agg = AggNone
    /\ queries = {}
    /\ resp = NoResponse

Init ==
    /\ ExtIdle
    /\ acc = AccIdle
    /\ tier = TierIdle
    /\ sol = SolIdle
    /\ now = Now0
    /\ agg = AggNone
    /\ queries = {}
    /\ resp = NoResponse
    /\ \/ /\ devices = DeviceIds
          /\ tariff = 0
          /\ store \in Stores(DeviceIds, OldestInstants, MonthlyEnergies)
       \/ /\ devices = {1}
          /\ tariff = 0
          /\ store \in Stores({1}, MonthlyInstants, SingleEnergies)
                          \cup Stores({1}, OutsideInstants, MonthlyEnergies)
       \/ /\ devices = DeviceIds
          /\ tariff \in TariffValues
          /\ store \in Stores({1}, TodayInstants, TodayEnergies)
       \/ /\ devices = {}
          /\ tariff = 0
          /\ store = EmptyStore

Next ==
    \/ TariffGet
    \/ TodayGet
    \/ DevicesList
    \/ ReadingsQuery
    \/ SettingsPut
    \/ DeviceCreate
    \/ DeviceDestroy
    \/ TelemetryUpload

Spec == Init /\ [][Next]_vars

----------------------------------------------------------------------------
(* SpecAcc: the accumulator run on every bounded sample sequence *)

MaxLen == 4

\* 0.00004, 0.00009, 0.00504, 3.0, 3.8, 10.0, 10.5 kWh: the first three are
\* 0.00005 and 0.005 apart, a tie of round(.., 4) and one of round(.., 2)
SampleValues == {4, 9, 504, 3 * KWh, 38 * (KWh \div 10), 10 * KWh, 105 * (KWh \div 10)}

RECURSIVE SeqsUpTo(_, _)
SeqsUpTo(S, n) ==
    IF n = 0 THEN {<<>>}
    ELSE LET shorter == SeqsUpTo(S, n - 1)
         IN  shorter \cup {Append(s, x) : s \in {t \in shorter : Len(t) = n - 1}, x \in S}

AccInit ==
    /\ AggIdle
    /\ ExtIdle
    /\ tier = TierIdle
    /\ sol = SolIdle
    /\ \E site \in {"today", "monthly"} : \E s \in SeqsUpTo(SampleValues, MaxLen) :
          acc = [site |-> site, readings |-> s, i |-> 0, st |-> LoopStart,
                 pc |-> "loop", ret |-> 0]

AccIter ==
    /\ acc.pc = "loop"
    /\ acc.i < Len(acc.readings)
    /\ acc' = [acc EXCEPT !.i = @ + 1,
                          !.st = LoopBody(acc.st, acc.readings[acc.i + 1])]
    /\ UNCHANGED <<aggVars, tier, sol, extVars>>

AccReturn ==
    /\ acc.pc = "loop"
    /\ acc.i = Len(acc.readings)
    /\ \E up \in BOOLEAN :
          acc' = [acc EXCEPT !.pc = "done",
                             !.ret = round(acc.st.total, Digits(acc.site), up)]
    /\ UNCHANGED <<aggVars, tier, sol, extVars>>

AccNext == AccIter \/ AccReturn

SpecAcc == AccInit /\ [][AccNext]_vars

(* What the accumulator is meant to compute, stated without the loop *)

Abs(x) == IF x < 0 THEN 0 - x ELSE x

\* the multiples of 10^-ndigits nearest to x: one, or two when x is halfway
Nearest(x, ndigits) ==
    LET q == Quantum(ndigits)
    IN  {v \in {q * (x \div q), q * (x \div q) + q} : 2 * Abs(v - x) <= q}

RECURSIVE SumPosDeltas(_)
SumPosDeltas(s) ==
    IF Len(s) < 2 THEN 0
    ELSE SumPosDeltas(SubSeq(s, 1, Len(s) - 1)) + Max0(s[Len(s)] - s[Len(s) - 1])

Decreases(s) == {k \in 1..(Len(s) - 1) : s[k + 1] < s[k]}
Increases(s) == {k \in 1..(Len(s) - 1) : s[k + 1] > s[k]}

\* exactly one decrease, with an increase somewhere before it and one after it
OneResetBetweenIncreases(s) ==
    /\ Cardinality(Decreases(s)) = 1
    /\ \E k \in Decreases(s) :
          /\ \E j \in Increases(s) : j < k
          /\ \E j \in Increases(s) : j > k

NonDecreasing(s) == \A k \in 1..(Len(s) - 1) : s[k] <= s[k + 1]

AccDone == acc.pc = "done"
First(s) == s[1]
Last(s) == s[Len(s)]

\* C1 as stated: the returned value is exactly the sum of the positive
\* differences of consecutive samples (no rounding).
C1_Original == AccDone => acc.ret = SumPosDeltas(acc.readings)

\* C1 amended: after every iteration the running total is the sum of the
\* strictly positive consecutive differences seen so far and prev is the sample
\* just read, whatever the sign of its difference; the returned value is that
\* sum rounded to 4 decimals (today) or 2 decimals (monthly): the nearest
\* multiple, either of the two when the sum is halfway between them.
C1_SumOfPositiveDeltasRounded ==
    /\ acc.pc \in {"loop", "done"} =>
          /\ acc.st.total = SumPosDeltas(SubSeq(acc.readings, 1, acc.i))
          /\ acc.i >= 1 => acc.st.prev = <<acc.readings[acc.i]>>
    /\ AccDone => acc.ret \in Nearest(SumPosDeltas(acc.readings), Digits(acc.site))

\* the example of the claim: 10.0, 10.5, 3.0, 3.8 returns 1.3 at both call sites
C1_Witness ==
    /\ AccDone
    /\ acc.readings = <<10 * KWh, 105 * (KWh \div 10), 3 * KWh, 38 * (KWh \div 10)>>
    /\ acc.ret = 13 * (KWh \div 10)

\* C2 as stated: with one reset between two increases the total is the sum of
\* the positive deltas and is strictly less than last - first.
C2_Original ==
    (AccDone /\ OneResetBetweenIncreases(acc.readings)) =>
        /\ acc.ret \in Nearest(SumPosDeltas(acc.readings), Digits(acc.site))
        /\ acc.ret < Last(acc.readings) - First(acc.readings)

\* C2 amended: with one reset between two increases the total is the rounded
\* sum of the positive deltas only; that sum exceeds last - first by exactly the
\* size of the dropped decrease, so it is strictly greater than last - first,
\* and the returned total is never below last - first rounded the same way.
C2_ResetNotSubtracted ==
    (AccDone /\ OneResetBetweenIncreases(acc.readings)) =>
        LET s     == acc.readings
            naive == Last(s) - First(s)
            k     == CHOOSE k \in Decreases(s) : TRUE
        IN  /\ acc.ret \in Nearest(SumPosDeltas(s), Digits(acc.site))
            /\ SumPosDeltas(s) = naive + (s[k] - s[k + 1])
            /\ SumPosDeltas(s) > naive
            /\ \A v \in Nearest(naive, Digits(acc.site)) : acc.ret >= v

\* a reset between two increases whose rounded total is below last - first:
\* 0.00004, 0.00009, 0.00004, 0.00009 returns 0 to 2 decimals while
\* last - first = 0.00005
C2_Witness ==
    /\ AccDone
    /\ OneResetBetweenIncreases(acc.readings)
    /\ acc.ret = 0
    /\ Last(acc.readings) - First(acc.readings) > 0

\* C3 as stated: on a monotonically increasing sequence of length >= 2 the
\* returned value equals last - first.
C3_Original ==
    (AccDone /\ Len(acc.readings) >= 2 /\ NonDecreasing(acc.readings)) =>
        acc.ret = Last(acc.readings) - First(acc.readings)

\* C3 amended: on a monotonically increasing sequence of length >= 2 no delta
\* is dropped: the unrounded total is last - first and the returned value is
\* last - first rounded to the call site's precision.
C3_MonotonicIsLastMinusFirst ==
    (AccDone /\ Len(acc.readings) >= 2 /\ NonDecreasing(acc.readings)) =>
        /\ acc.st.total = Last(acc.readings) - First(acc.readings)
        /\ acc.ret \in Nearest(Last(acc.readings) - First(acc.readings), Digits(acc.site))

\* a strictly increasing run of three samples, 3.0, 3.8, 10.5, returning 7.5
C3_Witness ==
    /\ AccDone
    /\ acc.readings = <<3 * KWh, 38 * (KWh \div 10), 105 * (KWh \div 10)>>
    /\ acc.ret = 75 * (KWh \div 10)

\* C4: a window holding no sample or exactly one sample returns 0.
C4_EmptyOrSingleIsZero ==
    (AccDone /\ Len(acc.readings) <= 1) => acc.ret = 0

\* a single-sample window has been accumulated
C4_Witness == AccDone /\ Len(acc.readings) = 1 /\ acc.ret = 0

----------------------------------------------------------------------------
(* The tariff calculator's protection status *)

\* rows of device d created in the calendar month b months before now
RowsOfMonth(d, b) ==
    SelectSeq(store[d], LAMBDA r : MonthIndex(r.created_at) = MonthIndex(now) - b)

\* the sample sequences of the devices' last `months` calendar months whose sum
\* of positive deltas is halfway between two hundredths
CellTies(months) ==
    {s \in {Energies(RowsOfMonth(d, b)) : d \in devices, b \in 0..(months - 1)} :
        IsTie(SumPosDeltas(s), Quantum(MonthDigits))}

\* what device d consumed in that month, to 2 decimals; the sequences in ups
\* round up when halfway
DeviceMonthKwh(d, b, ups) ==
    LET s == Energies(RowsOfMonth(d, b))
        x == SumPosDeltas(s)
        q == Quantum(MonthDigits)
    IN  IF IsTie(x, q) THEN (IF s \in ups THEN x + q \div 2 ELSE x - q \div 2)
        ELSE CHOOSE v \in Nearest(x, MonthDigits) : TRUE

\* the household total of that month: the sum of the devices' values
HouseholdTotal(b, ups) ==
    SumOver(devices, [d \in devices |-> DeviceMonthKwh(d, b, ups)])

\* the tariff calculator has answered with a monthly usage
TariffDone == resp.kind = "tariff" /\ resp.monthly_usage # <<>>

\* C5: is_protected is true exactly when each of the 6 most recent calendar
\* months, the current one included, has a household total strictly below 200
\* kWh; the totals are those reported in monthly_usage, and when no write is
\* committed while the request runs they are the sums over all the user's
\* devices of what each device consumed in the month.
C5_ProtectedIffSixMonthsUnder200 ==
    TariffDone =>
        /\ Len(resp.monthly_usage) = 6
        /\ resp.is_protected
              = Some(\A b \in 0..5 : resp.monthly_usage[b + 1].kwh < 200 * KWh)
        /\ NoRace =>
              \E ups \in SUBSET CellTies(6) :
                 /\ \A b \in 0..5 : resp.monthly_usage[b + 1].kwh = HouseholdTotal(b, ups)
                 /\ resp.is_protected
                       = Some(\A b \in 0..5 : HouseholdTotal(b, ups) < 200 * KWh)

\* protection is lost by the sum over two devices alone: the oldest month of
\* the range totals exactly 200 kWh while no device reaches 200 kWh in any month,
\* and a month outside the range does not count
C5_Witness ==
    /\ TariffDone
    /\ NoRace
    /\ resp.is_protected = Some(FALSE)
    /\ HouseholdTotal(5, {}) = 200 * KWh
    /\ \A d \in devices : \A b \in 0..6 : DeviceMonthKwh(d, b, {}) < 200 * KWh

----------------------------------------------------------------------------
(* Window bounds *)

FirstInstant(ym) == Dt(ym.year, ym.month, 1, 0)

\* the readings queries of the month walkers and of the today summary
MonthQueries == {q \in queries : q.fn # "today"}
TodayQueries == {q \in queries : q.fn = "today"}

InRows(r, q) == \E k \in 1..Len(q.rows) : q.rows[k] = r

StoredRows(d) == {store[d][k] : k \in 1..Len(store[d])}

\* C8: a month window starts at the first instant of its month (inclusive) and
\* ends at the first instant of the following month (exclusive), so the end of
\* window i+1 is the start of window i, a reading is returned by at most one
\* month query of its device, and a reading stamped at a month boundary is
\* returned for the later month only; the today window runs from the first
\* instant of today to now and returns a reading stamped exactly at now.  What
\* a query returned is compared with the store when no write has been committed
\* since the request began.
C8_WindowBounds ==
    /\ \A q \in MonthQueries :
          /\ q.from = FirstInstant(MonthsBefore(now, q.i))
          /\ q.to = FirstInstant(MonthsBefore(now, q.i - 1))
          /\ \A k \in 1..Len(q.rows) :
                MonthIndex(q.rows[k].created_at) = MonthIndex(now) - q.i
          /\ NoRace =>
                \A r \in StoredRows(q.device) :
                   InRows(r, q) <=> MonthIndex(r.created_at) = MonthIndex(now) - q.i
    /\ \A q1 \in MonthQueries : \A q2 \in MonthQueries :
          /\ (q1.device = q2.device /\ q2.i = q1.i + 1) => q2.to = q1.from
          /\ (q1.device = q2.device /\ q1.i # q2.i) =>
                \A r \in StoredRows(q1.device) : ~(InRows(r, q1) /\ InRows(r, q2))
          /\ (NoRace /\ q1.device = q2.device /\ q2.i = q1.i + 1) =>
                \A r \in StoredRows(q1.device) :
                    r.created_at = q1.from => (InRows(r, q1) /\ ~InRows(r, q2))
    /\ \A q \in TodayQueries :
          /\ q.from = [now EXCEPT !.tod = 0]
          /\ q.to = now
          /\ \A k \in 1..Len(q.rows) :
                DtLe(q.from, q.rows[k].created_at) /\ DtLe(q.rows[k].created_at, now)
          /\ NoRace =>
                \A r \in StoredRows(q.device) :
                   /\ InRows(r, q) <=> (DtLe(q.from, r.created_at) /\ DtLe(r.created_at, now))
                   /\ r.created_at = now => InRows(r, q)

\* a reading stamped at the first instant of the current month, which is the end
\* of the previous month's window, has been queried by the tariff calculator
C8_Witness ==
    /\ resp.kind = "tariff"
    /\ NoRace
    /\ \E q1 \in queries : \E q2 \in queries :
          /\ q1.device = q2.device /\ q1.i = 0 /\ q2.i = 1
          /\ \E r \in StoredRows(q1.device) :
                r.created_at = q2.to /\ InRows(r, q1) /\ ~InRows(r, q2)

----------------------------------------------------------------------------
(* SpecWalk: get_monthly_usage for every reference month and count *)

WalkYears == {2024, 2025}

WalkInit ==
    /\ ExtIdle
    /\ acc = AccIdle
    /\ tier = TierIdle
    /\ sol = SolIdle
    /\ now \in {Dt(y, m, 15, 2) : y \in WalkYears, m \in 1..12}
    /\ devices = {1}
    /\ store = EmptyStore
    /\ tariff = 0
    /\ agg = AggNone
    /\ queries = {}
    /\ resp = NoResponse

WalkNext ==
    \/ UsageCall
    \/ DevicesList
    \/ ReadingsQuery
    \/ DeviceDestroy

SpecWalk == WalkInit /\ [][WalkNext]_vars

\* C7: the walker yields exactly N entries, most recent first; entry i (from 0)
\* is labelled with the reference month minus i calendar months, December of the
\* previous year following January, so that no month is duplicated or skipped.
C7_ConsecutiveMonths ==
    (resp.kind = "usage" /\ agg.loc.exists) =>
        /\ Len(resp.monthly_usage) = resp.months
        /\ \A k \in 1..Len(resp.monthly_usage) :
              LET ym == MonthsBefore(now, k - 1)
              IN  /\ resp.monthly_usage[k].month = <<ym.year, ym.month>>
                  /\ ym.month \in 1..12
        /\ \A k \in 1..Len(resp.monthly_usage) : \A j \in 1..Len(resp.monthly_usage) :
              (resp.monthly_usage[k].month = resp.monthly_usage[j].month) => k = j

\* 13 months back from a January: the second entry is December of the previous
\* year and the last one is January of the previous year
C7_Witness ==
    /\ resp.kind = "usage"
    /\ agg.loc.exists
    /\ resp.months = 13
    /\ now.month = 1
    /\ resp.monthly_usage[2].month = <<now.year - 1, 12>>
    /\ resp.monthly_usage[13].month = <<now.year - 1, 1>>

----------------------------------------------------------------------------
(* SpecTier: calculate_tariff on monthly units around every tier bound *)

\* the largest whole number of kWh tried
MaxUnits == 310

Cent == KWh \div 100

TierUnits ==
    {k * KWh : k \in 0..MaxUnits}
        \cup {b * KWh + e : b \in {50, 100, 200, 300}, e \in {0 - Cent, Cent}}

TierInit ==
    /\ ExtIdle
    /\ acc = AccIdle
    /\ AggIdle
    /\ sol = SolIdle
    /\ \E u \in TierUnits : \E p \in BOOLEAN :
          tier = [units |-> u, is_protected |-> p, pc |-> "call", ret |-> None]

TierCall ==
    /\ tier.pc = "call"
    /\ tier' = [tier EXCEPT !.pc = "done",
                            !.ret = calculate_tariff(tier.units, tier.is_protected)]
    /\ UNCHANGED <<acc, aggVars, sol, extVars>>

SpecTier == TierInit /\ [][TierCall]_vars

\* the tier table of the design: upper bounds in kWh, rates in hundredths of a rupee
TierBounds == <<50, 100, 200, 300>>
ProtectedRates == <<Some(395), Some(774), Some(1301), None, Some(3310)>>
UnprotectedRates == <<None, Some(2244), Some(2891), Some(3310), Some(3310)>>

\* the first tier whose upper bound is >= the value, or the unbounded top tier
TierOf(units) ==
    IF \E k \in 1..Len(TierBounds) : units <= TierBounds[k] * KWh
    THEN CHOOSE k \in 1..Len(TierBounds) :
            /\ units <= TierBounds[k] * KWh
            /\ \A j \in 1..(k - 1) : units > TierBounds[j] * KWh
    ELSE Len(TierBounds) + 1

\* C6: calculate_tariff returns the rate of the one tier the value falls in:
\* protected 3.95 / 7.74 / 13.01 / not applicable / 33.10, unprotected
\* not applicable / 22.44 / 28.91 / 33.10 / 33.10; so (50, protected) gives 3.95,
\* (250, unprotected) 33.10 and (250, protected) not applicable.
C6_TierTable ==
    tier.pc = "done" =>
        /\ tier.ret = IF tier.is_protected THEN ProtectedRates[TierOf(tier.units)]
                      ELSE UnprotectedRates[TierOf(tier.units)]
        /\ (tier.units = 50 * KWh /\ tier.is_protected) => tier.ret = Some(395)
        /\ (tier.units = 250 * KWh /\ ~tier.is_protected) => tier.ret = Some(3310)
        /\ (tier.units = 250 * KWh /\ tier.is_protected) => tier.ret = None

\* the protected call at exactly 50 kWh has returned the lifeline rate
C6_Witness ==
    tier.pc = "done" /\ tier.units = 50 * KWh /\ tier.is_protected /\ tier.ret = Some(395)

----------------------------------------------------------------------------
(* Solar irradiance estimator.  Instants are whole seconds; capacity and     *)
(* the result are in thousandths of a kW; cloud cover is a percentage.       *)

(* math.sin is computed by CORDIC rotations on 30-bit fixed-point numbers,   *)
(* which stay inside 32 bits: the angle is a fraction of a quarter turn, so   *)
(* that pi itself is never multiplied.                                        *)

Pow2(n) == 2 ^ n

\* the bits of the fixed-point numbers
FixBits == 30

\* atan(2^-i) as a fraction of a quarter turn, times 2^30, for i = 0..29
AtanTable == <<536870912, 316933406, 167458907, 85004756, 42667331, 21354465,
               10679838, 5340245, 2670163, 1335087, 667544, 333772, 166886, 83443,
               41722, 20861, 10430, 5215, 2608, 1304, 652, 326, 163, 81, 41, 20, 10,
               5, 3, 1>>

\* the product of cos(atan(2^-i)), i = 0..29, times 2^30
CordicGain == 652032874

\* floor(n * 2^30 / d) for 0 <= r < d, by long division: k bits to go
RECURSIVE quotient_bits(_, _, _, _)
quotient_bits(r, d, t, k) ==
    IF k = 0 THEN t
    ELSE IF 2 * r >= d THEN quotient_bits(2 * r - d, d, 2 * t + 1, k - 1)
         ELSE quotient_bits(2 * r, d, 2 * t, k - 1)

\* n / d of a quarter turn, 0 <= n <= d, times 2^30
quarter_turns(n, d) == IF n = d THEN Pow2(FixBits) ELSE quotient_bits(n, d, 0, FixBits)

\* rotation i of the vector (x, y) towards the angle left in z; the sine after
\* the last one
RECURSIVE cordic(_, _, _, _)
cordic(x, y, z, i) ==
    IF i = FixBits THEN y
    ELSE IF z >= 0
         THEN cordic(x - (y \div Pow2(i)), y + (x \div Pow2(i)), z - AtanTable[i + 1], i + 1)
         ELSE cordic(x + (y \div Pow2(i)), y - (x \div Pow2(i)), z + AtanTable[i + 1], i + 1)

\* y / 2^30 to the nearest millionth: y * 15625 / 2^24, taken in halves of 15 bits
millionths(y) ==
    LET yh == Max0(y) \div Pow2(15)
        yl == Max0(y) % Pow2(15)
        a  == yh * 15625
        rr == (a % Pow2(9)) * Pow2(15) + yl * 15625
    IN  (a \div Pow2(9)) + (rr \div Pow2(24))
            + (IF 2 * (rr % Pow2(24)) >= Pow2(24) THEN 1 ELSE 0)

\* math.sin(math.pi * elapsed / day_seconds) for 0 <= elapsed <= day_seconds,
\* in millionths and within one millionth of the code's value; sin(pi * x) =
\* sin(pi * (1 - x)) brings the angle into the first quarter turn
solar_factor(elapsed, day_seconds) ==
    LET n == IF 2 * elapsed <= day_seconds THEN 2 * elapsed
             ELSE 2 * (day_seconds - elapsed)
    IN  millionths(cordic(CordicGain, 0, quarter_turns(n, day_seconds), 0))

\* max(0.0, 1.0 - (cloud_cover / 100.0) * 0.75), in 400ths
cloud_factor(cloud_cover) == Max0(400 - 3 * cloud_cover)

\* capacity_kw * solar_factor * cloud_factor in thousandths of a kW: the whole
\* thousandths (lo), the rest in millionths of a thousandth (rest) and how far
\* off the rest may be (slack), s being within one millionth of the sine; the
\* product is taken in pieces that stay inside 32 bits
power(capacity_kw, s, cf) ==
    LET g1 == (s * cf) \div 400
        g0 == (s * cf) % 400
        w  == capacity_kw * (g1 \div 1000)
        rr == (w % 1000) * 1000 + capacity_kw * (g1 % 1000) + (capacity_kw * g0) \div 400
    IN  [lo    |-> (w \div 1000) + (rr \div 1000000),
         rest  |-> rr % 1000000,
         slack |-> IF s = 0 THEN 0 ELSE (capacity_kw * cf) \div 400 + 2]

\* the product is so near the middle of two thousandths that the double decides
power_tie(capacity_kw, s, cf) ==
    LET p == power(capacity_kw, s, cf)
    IN  s > 0 /\ Abs(p.rest - 500000) <= p.slack

\* round(capacity_kw * solar_factor * cloud_factor, 3), in thousandths; next to
\* the middle of two thousandths the result goes up iff up
round_power(capacity_kw, s, cf, up) ==
    LET p == power(capacity_kw, s, cf)
    IN  IF power_tie(capacity_kw, s, cf) THEN (IF up THEN p.lo + 1 ELSE p.lo)
        ELSE IF p.rest < 500000 THEN p.lo ELSE p.lo + 1

Returned(kw) == [err |-> "", kw |-> kw]
Raised(e) == [err |-> e, kw |-> 0]

\* the mutant of estimate_solar_kw that guards the zero-length day
estimate_solar_kw_guarded(capacity_kw, cloud_cover, t, sunrise, sunset, up) ==
    IF capacity_kw <= 0 THEN Returned(0)
    ELSE IF t < sunrise \/ t > sunset THEN Returned(0)
    ELSE IF sunset - sunrise = 0 THEN Returned(0)
    ELSE Returned(Max0(round_power(capacity_kw, solar_factor(t - sunrise, sunset - sunrise),
                                   cloud_factor(cloud_cover), up)))

\* estimate_solar_kw(capacity_kw, cloud_cover, now, sunrise, sunset)
estimate_solar_kw(capacity_kw, cloud_cover, t, sunrise, sunset, up) ==
    IF capacity_kw <= 0 THEN Returned(0)
    ELSE IF t < sunrise \/ t > sunset THEN Returned(0)
    ELSE LET day_seconds == sunset - sunrise
             elapsed     == t - sunrise
         IN  IF day_seconds = 0 THEN Raised("ZeroDivisionError")
             ELSE Returned(Max0(round_power(capacity_kw, solar_factor(elapsed, day_seconds),
                                            cloud_factor(cloud_cover), up)))

\* the estimate hangs on the double: the directions a call can take
estimate_ups(capacity_kw, cloud_cover, t, sunrise, sunset) ==
    IF /\ capacity_kw > 0
       /\ sunrise <= t /\ t <= sunset /\ sunrise < sunset
       /\ power_tie(capacity_kw, solar_factor(t - sunrise, sunset - sunrise),
                    cloud_factor(cloud_cover))
    THEN BOOLEAN ELSE {FALSE}

\* -1, 0, 0.003, 2 and 5 kW
Capacities == {0 - 1000, 0, 3, 2000, 5000}

CloudCovers == {0, 40, 100}

Sunrises == {6}

\* daylight lengths in seconds
DayLengths == {0, 1, 2, 3, 5, 6, 12, 24}

SolarInit ==
    /\ ExtIdle
    /\ acc = AccIdle
    /\ AggIdle
    /\ tier = TierIdle
    /\ \E c \in Capacities : \E cc \in CloudCovers : \E sr \in Sunrises :
       \E len \in DayLengths : \E t \in (sr - 1)..(sr + len + 1) :
          sol = [capacity_kw |-> c, cloud_cover |-> cc, now |-> t, sunrise |-> sr,
                 sunset |-> sr + len, pc |-> "call", err |-> "", kw |-> 0]

SolarCall ==
    /\ sol.pc = "call"
    /\ \E up \in estimate_ups(sol.capacity_kw, sol.cloud_cover, sol.now,
                              sol.sunrise, sol.sunset) :
          LET out == estimate_solar_kw(sol.capacity_kw, sol.cloud_cover, sol.now,
                                       sol.sunrise, sol.sunset, up)
          IN  sol' = [sol EXCEPT !.pc = "done", !.err = out.err, !.kw = out.kw]
    /\ UNCHANGED <<acc, aggVars, tier, extVars>>

SpecSolar == SolarInit /\ [][SolarCall]_vars

SolarDone == sol.pc = "done"

\* C9: the estimate is 0 whenever the capacity is non-positive, now is before
\* sunrise or after sunset, or now is exactly sunrise or exactly sunset; a
\* positive estimate needs a positive capacity and now strictly inside daylight.
C9_ZeroOutsideDaylight ==
    SolarDone =>
        /\ (\/ sol.capacity_kw <= 0
            \/ sol.now < sol.sunrise \/ sol.now > sol.sunset
            \/ sol.now = sol.sunrise \/ sol.now = sol.sunset)
              => (sol.err = "" /\ sol.kw = 0)
        /\ (sol.err = "" /\ sol.kw > 0)
              => (sol.capacity_kw > 0 /\ sol.sunrise < sol.now /\ sol.now < sol.sunset)

\* C10: for capacity >= 0, cloud cover in 0..100 and sunrise <= sunset, the
\* zero-length day included, the call returns a number >= 0 and raises nothing.
C10_NeverRaises ==
    (SolarDone /\ sol.capacity_kw >= 0 /\ sol.cloud_cover \in 0..100
        /\ sol.sunrise <= sol.sunset)
        => (sol.err = "" /\ sol.kw >= 0)

----------------------------------------------------------------------------
(* SpecReport: the monthly report and the tariff calculator, with and without devices *)

\* the most readings a store of the report specification holds
MaxSamples == 3

\* creation instants of the report stores: the first instant of the current
\* month for the first device, the 15th for both
ReportSlots ==
    {<<1, Dt(Now0.year, Now0.month, 1, 0)>>}
    \cup {<<d, Dt(Now0.year, Now0.month, 15, 0)>> : d \in DeviceIds}

\* 0, 0.01 and 3 kWh
ReportEnergies == {0, KWh \div 100, 3 * KWh}

ReportStores ==
    LET Filled(S, e) ==
            [d \in DeviceIds |->
                SortRows({[created_at |-> sl[2], energy_kwh |-> e[sl], power |-> 0]
                             : sl \in {x \in S : x[1] = d}})]
    IN  UNION {{Filled(S, e) : e \in [S -> ReportEnergies]}
                 : S \in {T \in SUBSET ReportSlots : Cardinality(T) <= MaxSamples}}

\* installed capacities, in thousandths of a kW: -1, 0, 0.001 and 5 kW
ReportCapacities == {0 - 1000, 0, 1, 5000}

ReportConfigs ==
    {CfgNone} \cup {[enabled |-> TRUE, installed_capacity_kw |-> c, place |-> 1]
                     : c \in ReportCapacities}

\* 13.10 PKR per kWh
ReportTariffs == {1310}

ReportInit ==
    /\ acc = AccIdle
    /\ tier = TierIdle
    /\ sol = SolIdle
    /\ rng = RngIdle
    /\ wx = WxIdle
    /\ now = Now0
    /\ agg = AggNone
    /\ queries = {}
    /\ resp = NoResponse
    /\ cfg \in ReportConfigs
    /\ tariff \in ReportTariffs
    /\ \/ /\ devices = DeviceIds
          /\ store \in ReportStores
       \/ /\ devices = {}
          /\ store = EmptyStore

ReportNext ==
    \/ TariffGet
    \/ ReportGet
    \/ DevicesExist
    \/ SettingsGet
    \/ DevicesList
    \/ ReadingsQuery
    \/ SolarConfigFirst
    \/ SolarConfigPut
    \/ DeviceDestroy

SpecReport == ReportInit /\ [][ReportNext]_vars

ReportDone == resp.kind = "report"

\* C11: for a user who owns no devices the tariff calculator returns no tariff,
\* no protection status, 0 current-month units and an empty usage list, the
\* monthly report returns empty report and breakdown lists with all totals and
\* averages 0, and the response carries an explanatory message.
C11_NoDevicesShortCircuit ==
    (devices = {} /\ NoRace) =>
        /\ resp.kind = "tariff" =>
              /\ resp.calculated_tariff = None
              /\ resp.is_protected = None
              /\ resp.current_month_units = 0
              /\ resp.monthly_usage = <<>>
              /\ "message" \in DOMAIN resp
        /\ resp.kind = "report" =>
              /\ resp.monthly_reports = <<>>
              /\ resp.device_breakdown = <<>>
              /\ resp.total_kwh = 0
              /\ resp.total_cost_pkr = 0
              /\ resp.average_monthly_kwh = 0
              /\ resp.average_monthly_cost = 0
              /\ resp.solar_kwh = 0
              /\ resp.grid_kwh = 0
              /\ "message" \in DOMAIN resp

\* twice min(capacity x 4 x 365 x 0.7, half of the reported total)
TwiceOffset ==
    Min(2 * estimated_solar_kwh(agg.solar_config.installed_capacity_kw), resp.total_kwh)

\* C16 as stated: with an enabled configuration of capacity >= 0 the solar offset
\* equals min(capacity x 4 x 365 x 0.7, 50% of total kWh) and grid kWh equals
\* total minus that offset, so solar <= half of total, grid >= half of total and
\* solar + grid = total; with no enabled configuration solar = 0 and grid = total.
C16_Original ==
    ReportDone =>
        IF agg.solar_config.enabled
        THEN agg.solar_config.installed_capacity_kw >= 0 =>
                /\ 2 * resp.solar_kwh = TwiceOffset
                /\ 2 * resp.grid_kwh = 2 * resp.total_kwh - TwiceOffset
                /\ 2 * resp.solar_kwh <= resp.total_kwh
                /\ 2 * resp.grid_kwh >= resp.total_kwh
                /\ resp.solar_kwh + resp.grid_kwh = resp.total_kwh
        ELSE resp.solar_kwh = 0 /\ resp.grid_kwh = resp.total_kwh

\* C16 amended: the offset and the grid energy are each reported to the nearest
\* hundredth of a kWh, so each is within 0.005 of its exact value, solar is at
\* most half of the total plus 0.005, grid at least half minus 0.005, and
\* solar + grid is within 0.01 of the total; with no enabled configuration
\* solar = 0 and grid = total.
C16_SolarOffsetRounded ==
    ReportDone =>
        IF agg.solar_config.enabled
        THEN agg.solar_config.installed_capacity_kw >= 0 =>
                /\ resp.solar_kwh % Quantum(MonthDigits) = 0
                /\ resp.grid_kwh % Quantum(MonthDigits) = 0
                /\ Abs(2 * resp.solar_kwh - TwiceOffset) <= Quantum(MonthDigits)
                /\ Abs(2 * resp.grid_kwh - (2 * resp.total_kwh - TwiceOffset))
                      <= Quantum(MonthDigits)
                /\ 2 * resp.solar_kwh <= resp.total_kwh + Quantum(MonthDigits)
                /\ 2 * resp.grid_kwh >= resp.total_kwh - Quantum(MonthDigits)
                /\ Abs(resp.solar_kwh + resp.grid_kwh - resp.total_kwh)
                      <= Quantum(MonthDigits)
        ELSE resp.solar_kwh = 0 /\ resp.grid_kwh = resp.total_kwh

\* C16 witness: a report with an enabled configuration of positive capacity whose
\* offset is capped at half of an odd number of hundredths
C16_Witness ==
    /\ ReportDone
    /\ agg.solar_config.enabled
    /\ agg.solar_config.installed_capacity_kw > 0
    /\ resp.total_kwh > 0
    /\ 2 * estimated_solar_kwh(agg.solar_config.installed_capacity_kw) > resp.total_kwh
    /\ resp.solar_kwh + resp.grid_kwh # resp.total_kwh

----------------------------------------------------------------------------
(* The weather cache, the provider and the clock: get_weather statement by    *)
(* statement.  A request in flight is a frame wx.reqs[r]: pc is the statement  *)
(* it executes next, the other fields are its local variables.  Between two    *)
(* statements that read or write the database, the clock or the provider,      *)
(* other requests take their steps and the clock moves on.                     *)

\* is_fresh(self, max_age_minutes=30)
MaxAgeMinutes == 30

\* timedelta(minutes=5) of the recency check in SolarStatusAPI.get
RecentMinutes == 5

\* the clock advances in steps of the recency window, so that ages of exactly
\* 5 and exactly 30 minutes occur
ClockStep == RecentMinutes

\* the most clock advances of a behaviour
MaxTicks == 2

\* the most get_weather calls, and the most solar status requests, of a
\* behaviour: one per frame
MaxRequests == Cardinality(Reqs)

\* request.user, and another user
User == 1
Other == 2

\* the mutant of is_fresh with "<=" for "<"
is_fresh_inclusive(c, t) == (t - c.fetched_at) * 60 <= MaxAgeMinutes * 60

\* WeatherCache.is_fresh: (timezone.now() - self.fetched_at).total_seconds() < max_age_minutes * 60
is_fresh(c, t) == (t - c.fetched_at) * 60 < MaxAgeMinutes * 60

\* what the provider answers: a failure (requests raises) or the fields of data
ProviderFailure == [ok |-> FALSE, cloud_cover |-> 0, sunrise |-> 0, sunset |-> 0]
ProviderData(cc, sr, ss) == [ok |-> TRUE, cloud_cover |-> cc, sunrise |-> sr, sunset |-> ss]

\* the provider's answers: a 60-minute day from minute 0 under 40% clouds, and
\* failure
Answers == {ProviderData(40, 0, 60), ProviderFailure}

\* a WeatherCache row
CacheRow(place, cc, sr, ss, t) ==
    [place |-> place, cloud_cover |-> cc, sunrise |-> sr, sunset |-> ss, fetched_at |-> t]

\* WeatherCache.objects.filter(latitude=lat, longitude=lon).first(): the primary
\* key of the first row of the place in primary-key order, 0 when there is none
first_row(rows, place) ==
    LET found == {k \in 1..Len(rows) : rows[k].place = place}
    IN  IF found = {} THEN 0 ELSE CHOOSE k \in found : \A j \in found : k <= j

\* some request other than r is in flight
Overlaps(r) == \E o \in Reqs \ {r} : InFlight(wx.reqs[o])

\* the frame of a request that has just started
Started(api, place, capacity_kw) ==
    [ReqIdle EXCEPT !.pc = "lookup", !.api = api, !.place = place,
                    !.capacity_kw = capacity_kw]

\* get_weather returns row: a call on its own is over, and its locals are kept
\* for inspection; inside a view the locals of get_weather are gone and the view
\* goes on with the row
returned(q, row) ==
    IF q.api = "weather" THEN [q EXCEPT !.weather = Some(row), !.pc = "done"]
    ELSE [q EXCEPT !.weather = Some(row), !.seen = 0, !.before = None,
                   !.checked_at = 0, !.contacted = FALSE, !.answer = None,
                   !.pc = IF q.api = "status" THEN "estimate" ELSE "fallback"]

\* an exception leaves the request
raised(q, e) == [q EXCEPT !.pc = "failed", !.out = [kind |-> "error", err |-> e]]

\* the mutant of fetch_failed that answers from the row read at line 11
fetch_failed_masked(q) ==
    IF q.before # None THEN returned(q, q.before[1]) ELSE raised(q, "RequestException")

\* requests.get or raise_for_status raises: nothing catches it
fetch_failed(q) == raised(q, "RequestException")

\* timezone.now() moves on
Tick ==
    /\ wx.clock < (MaxAgeMinutes - ClockStep) + MaxTicks * ClockStep
    /\ wx' = [wx EXCEPT !.clock = @ + ClockStep]
    /\ UNCHANGED <<acc, aggVars, tier, sol, cfg, rng>>

\* a new request runs in the first frame that is not in flight
Free(r) == ~InFlight(wx.reqs[r]) /\ \A o \in Reqs : o < r => InFlight(wx.reqs[o])

\* get_weather(lat, lon) is called on its own
WeatherCall(r) ==
    /\ Free(r)
    /\ wx.started < MaxRequests
    /\ \E place \in Places :
          wx' = [wx EXCEPT !.started = @ + 1,
                           !.overlapped = @ \/ Overlaps(r),
                           !.reqs[r] = Started("weather", place, 0)]
    /\ UNCHANGED <<acc, aggVars, tier, sol, cfg, rng>>

\* line 11: the row of the coordinates is read into cache
WeatherLookup(r) ==
    LET q    == wx.reqs[r]
        seen == first_row(wx.rows, q.place)
    IN  /\ q.pc = "lookup"
        /\ wx' = [wx EXCEPT !.reqs[r] =
                     [q EXCEPT !.seen = seen,
                               !.before = IF seen = 0 THEN None ELSE Some(wx.rows[seen]),
                               !.pc = IF seen = 0 THEN "fetch" ELSE "fresh"]]
        /\ UNCHANGED <<acc, aggVars, tier, sol, cfg, rng>>

\* lines 13-14: is_fresh reads the clock; a fresh row is returned as it was read
WeatherFresh(r) ==
    LET q == wx.reqs[r]
    IN  /\ q.pc = "fresh"
        /\ wx' = [wx EXCEPT !.reqs[r] =
                     IF is_fresh(q.before[1], wx.clock)
                     THEN returned([q EXCEPT !.checked_at = wx.clock], q.before[1])
                     ELSE [q EXCEPT !.checked_at = wx.clock, !.pc = "fetch"]]
        /\ UNCHANGED <<acc, aggVars, tier, sol, cfg, rng>>

\* lines 16-29: the provider answers, or fails
WeatherFetch(r) ==
    LET q == wx.reqs[r]
    IN  /\ q.pc = "fetch"
        /\ \E p \in Answers :
              wx' = [wx EXCEPT !.reqs[r] =
                        IF p.ok THEN [q EXCEPT !.contacted = TRUE, !.answer = Some(p),
                                               !.pc = "save"]
                        ELSE fetch_failed([q EXCEPT !.contacted = TRUE, !.answer = Some(p)])]
        /\ UNCHANGED <<acc, aggVars, tier, sol, cfg, rng>>

\* lines 31-39: cache.save() inserts a row when line 11 found none and updates
\* the row it found otherwise; auto_now stamps fetched_at with the clock
WeatherSave(r) ==
    LET q   == wx.reqs[r]
        p   == q.answer[1]
        row == CacheRow(q.place, p.cloud_cover, p.sunrise, p.sunset, wx.clock)
    IN  /\ q.pc = "save"
        /\ wx' = [wx EXCEPT !.rows = IF q.seen = 0 THEN Append(@, row)
                                     ELSE [@ EXCEPT ![q.seen] = row],
                            !.reqs[r] = returned(q, row)]
        /\ UNCHANGED <<acc, aggVars, tier, sol, cfg, rng>>

\* the clock when the first request arrives: a snapshot fetched at minute 0 is
\* still fresh then and stale one step later
StatusStart == MaxAgeMinutes - ClockStep

\* the cache at the start: empty, or a clear 60-minute day fetched at minute 0
\* for the first place
StartRows == {<<>>, <<CacheRow(1, 0, 0, 60, 0)>>}

WeatherInit ==
    /\ acc = AccIdle
    /\ AggIdle
    /\ tier = TierIdle
    /\ sol = SolIdle
    /\ cfg = CfgNone
    /\ rng = RngIdle
    /\ \E rows \in StartRows : wx = [WxIdle EXCEPT !.clock = StatusStart, !.rows = rows]

WeatherNext ==
    \/ Tick
    \/ (\E r \in Reqs : WeatherCall(r))
    \/ (\E r \in Reqs : WeatherLookup(r))
    \/ (\E r \in Reqs : WeatherFresh(r))
    \/ (\E r \in Reqs : WeatherFetch(r))
    \/ (\E r \in Reqs : WeatherSave(r))

SpecWeather == WeatherInit /\ [][WeatherNext]_vars

\* request r takes a step
Steps(r) == wx'.reqs[r] # wx.reqs[r]

\* the stored snapshot of a place: the row get_weather reads
Snapshot(rows, place) ==
    IF first_row(rows, place) = 0 THEN None ELSE Some(rows[first_row(rows, place)])

\* the age in minutes of snapshot c at clock t
Age(c, t) == t - c[1].fetched_at

\* C13: after any sequence of get_weather calls (one after the other) and clock
\* advances there is one snapshot per coordinates at most, and a call returns
\* the stored snapshot without contacting the provider if and only if a snapshot
\* exists and now - fetchedAt < 30 minutes, now being the clock of the freshness
\* check; otherwise it contacts the provider and, on success, overwrites cloud
\* cover, sunrise and sunset and resets fetchedAt to the clock of the save.
\* Every snapshot returned is younger than 30 minutes when returned, and a
\* snapshot aged exactly 30 minutes is refreshed.
C13_FreshnessWindow ==
    [][~wx'.overlapped =>
        \A r \in Reqs :
            LET q    == wx.reqs[r]
                q2   == wx'.reqs[r]
                snap == Snapshot(wx.rows, q.place)
            IN  /\ \A pl \in Places :
                      Cardinality({k \in 1..Len(wx.rows) : wx.rows[k].place = pl}) <= 1
                /\ (Steps(r) /\ q.pc = "lookup") =>
                      /\ q2.before = snap
                      /\ wx'.rows = wx.rows
                      /\ snap = None => q2.pc = "fetch"
                /\ (Steps(r) /\ q.pc = "fresh") =>
                      /\ q.before = snap
                      /\ wx'.rows = wx.rows
                      /\ IF Age(snap, wx.clock) < MaxAgeMinutes
                         THEN /\ q2.pc = "done"
                              /\ q2.weather = snap
                              /\ ~q2.contacted
                         ELSE q2.pc = "fetch"
                /\ (Steps(r) /\ q.pc = "fetch") =>
                      /\ q2.contacted
                      /\ snap = None \/ Age(snap, q.checked_at) >= MaxAgeMinutes
                      /\ wx'.rows = wx.rows
                /\ (Steps(r) /\ q.pc = "save") =>
                      /\ q2.pc = "done"
                      /\ q2.weather = Some(CacheRow(q.place, q.answer[1].cloud_cover,
                                                    q.answer[1].sunrise, q.answer[1].sunset,
                                                    wx.clock))
                      /\ Snapshot(wx'.rows, q.place) = q2.weather
                      /\ Age(q2.weather, wx.clock) < MaxAgeMinutes
                      /\ \A pl \in Places \ {q.place} :
                            Snapshot(wx'.rows, pl) = Snapshot(wx.rows, pl)]_vars

\* C13 witness: with no two calls overlapping, a call found the snapshot aged
\* exactly 30 minutes, contacted the provider and replaced it by different data
C13_Witness ==
    /\ ~wx.overlapped
    /\ \E r \in Reqs :
          LET q == wx.reqs[r]
          IN  /\ q.pc = "done"
              /\ q.before # None
              /\ Age(q.before, q.checked_at) = MaxAgeMinutes
              /\ q.contacted
              /\ q.weather[1].cloud_cover # q.before[1].cloud_cover
              /\ wx.rows = <<q.weather[1]>>

----------------------------------------------------------------------------
(* SpecStatus: solar status requests of one user, statement by statement, with *)
(* the writes of the settings, the solar configuration and the telemetry       *)

\* round((latest.power / 1000), 3) if latest else 0.0: power in tenths of a
\* watt, the result in thousandths of a kW; a power halfway goes up iff up
home_kw(latest, up) == IF latest = None THEN 0 ELSE RoundTo(latest[1], 10, up) \div 10

\* round(min(home_kw, solar_kw) * tariff, 2), in hundredths of a rupee
savings_today(home, solar, rate, up) == RoundTo(Min(home, solar) * rate, 1000, up) \div 1000

\* the mutant of recent_sample that looks at the samples of every user
recent_sample_any_user(gens, user, t) ==
    \E g \in gens : g.created_at >= t - RecentMinutes

\* SolarGeneration.objects.filter(user=request.user,
\*     created_at__gte=timezone.now() - timedelta(minutes=5)).first() is not None
recent_sample(gens, user, t) ==
    \E g \in gens : g.user = user /\ g.created_at >= t - RecentMinutes

\* the response of lines 96-104; grid_import_kw = round(max(home_kw - solar_kw,
\* 0.0), 3) is the difference of two numbers of 3 decimals, which has no tie
StatusResponse(solar, home, savings, cloud_cover) ==
    [kind |-> "status", enabled |-> TRUE, solar_kw |-> solar, home_kw |-> home,
     grid_import_kw |-> Max0(home - solar),
     savings_today_pkr |-> savings,
     cloud_cover |-> cloud_cover]

\* lines 44-46: the enabled SolarConfig row of the user is read
StatusGet(r) ==
    /\ Free(r)
    /\ wx.started < MaxRequests
    /\ wx' = [wx EXCEPT
                !.started = @ + 1,
                !.overlapped = @ \/ Overlaps(r),
                !.reqs[r] = IF cfg.enabled
                            THEN Started("status", cfg.place, cfg.installed_capacity_kw)
                            ELSE [ReqIdle EXCEPT !.pc = "done", !.api = "status",
                                                 !.out = [kind |-> "status",
                                                          enabled |-> FALSE]]]
    /\ UNCHANGED <<acc, aggVars, tier, sol, cfg, rng>>

\* lines 50-57: now = timezone.now() and the estimate, which may raise
StatusEstimate(r) ==
    LET q       == wx.reqs[r]
        weather == q.weather[1]
    IN  /\ q.pc = "estimate"
        /\ \E up \in estimate_ups(q.capacity_kw, weather.cloud_cover, wx.clock,
                                  weather.sunrise, weather.sunset) :
              LET est == estimate_solar_kw(q.capacity_kw, weather.cloud_cover, wx.clock,
                                           weather.sunrise, weather.sunset, up)
              IN  wx' = [wx EXCEPT !.reqs[r] =
                            IF est.err # "" THEN raised(q, est.err)
                            ELSE [q EXCEPT !.pc = "latest", !.solar_kw = est.kw]]
        /\ UNCHANGED <<acc, aggVars, tier, sol, cfg, rng>>

\* lines 59-67: the latest reading of the user's devices is read
StatusLatest(r) ==
    LET q == wx.reqs[r]
    IN  /\ q.pc = "latest"
        /\ \E readings \in user_readings :
              LET latest == IF readings = <<>> THEN None
                            ELSE Some(readings[Len(readings)].power)
              IN  \E up \in (IF latest # None /\ IsTie(latest[1], 10)
                             THEN BOOLEAN ELSE {FALSE}) :
                     wx' = [wx EXCEPT !.reqs[r] = [q EXCEPT !.pc = "tariff",
                                                            !.home_kw = home_kw(latest, up)]]
        /\ UNCHANGED <<acc, aggVars, tier, sol, cfg, rng>>

\* lines 69-72: the tariff is read; everything the response holds is known, and
\* the frame keeps the response in place of what it was computed from
StatusTariff(r) ==
    LET q == wx.reqs[r]
    IN  /\ q.pc = "tariff"
        /\ \E up \in (IF IsTie(Min(q.home_kw, q.solar_kw) * tariff, 1000)
                      THEN BOOLEAN ELSE {FALSE}) :
              wx' = [wx EXCEPT !.reqs[r] =
                        [ReqIdle EXCEPT
                            !.pc = "recent", !.api = "status",
                            !.out = StatusResponse(q.solar_kw, q.home_kw,
                                        savings_today(q.home_kw, q.solar_kw, tariff, up),
                                        q.weather[1].cloud_cover)]]
        /\ UNCHANGED <<acc, aggVars, tier, sol, cfg, rng>>

\* lines 76-81: the recency check, with its own timezone.now(); a request that
\* finds a recent sample answers
StatusRecent(r) ==
    LET q      == wx.reqs[r]
        recent == recent_sample(wx.gens, User, wx.clock)
    IN  /\ q.pc = "recent"
        /\ wx' = [wx EXCEPT !.reqs[r] = [q EXCEPT !.recent = recent,
                                                  !.pc = IF recent THEN "done" ELSE "insert"]]
        /\ UNCHANGED <<acc, aggVars, tier, sol, cfg, rng>>

\* the mutant of create_sample in which a failed insert fails the request
create_sample_raising(q, created) == [q EXCEPT !.pc = IF created THEN "done" ELSE "failed"]

\* the request after SolarGeneration.objects.create inside try/except Exception
create_sample(q, created) == [q EXCEPT !.pc = "done"]

\* the mutant of create that replaces the user's samples of the last 5 minutes
create_replacing(gens, g) ==
    {h \in gens : ~(h.user = g.user /\ g.created_at - h.created_at < RecentMinutes)} \cup {g}

\* SolarGeneration.objects.create(...): one more row
create(gens, g) == gens \cup {g}

\* lines 82-104: the insert, which may fail, and the response; auto_now_add
\* stamps created_at with the clock
StatusInsert(r) ==
    LET q == wx.reqs[r]
    IN  /\ q.pc = "insert"
        /\ \E created \in BOOLEAN :
              LET id == Cardinality(wx.gens) + 1
                  q2 == create_sample(q, created)
              IN  wx' = [wx EXCEPT
                           !.gens = IF created
                                    THEN create(@, [id |-> id, user |-> User,
                                                    created_at |-> wx.clock,
                                                    solar_kw |-> q.out.solar_kw,
                                                    home_kw |-> q.out.home_kw,
                                                    grid_import_kw |-> q.out.grid_import_kw,
                                                    cloud_cover |-> q.out.cloud_cover])
                                    ELSE @,
                           !.reqs[r] = [q2 EXCEPT !.stored = IF created THEN id ELSE 0]]
        /\ UNCHANGED <<acc, aggVars, tier, sol, cfg, rng>>

\* a stored sample of the other user
OtherSample(t) == [id |-> 1, user |-> Other, created_at |-> t, solar_kw |-> 0,
                   home_kw |-> 0, grid_import_kw |-> 0, cloud_cover |-> 0]

\* 2 kW enabled at the first place
StatusConfigs == {[enabled |-> TRUE, installed_capacity_kw |-> 2000, place |-> 1]}

\* the readings of the user's device 1 when the first request arrives: none,
\* or one of 1200.4 W uploaded at clock 0
StatusStores ==
    {EmptyStore,
     [d \in DeviceIds |->
         IF d = 1 THEN <<[created_at |-> Now0, energy_kwh |-> 3 * KWh, power |-> 12004]>>
         ELSE <<>>]}

\* 13.10 PKR per kWh
StatusTariffs == {1310}

StatusInit ==
    /\ acc = AccIdle
    /\ tier = TierIdle
    /\ sol = SolIdle
    /\ rng = RngIdle
    /\ now = Now0
    /\ devices = {1}
    /\ store \in StatusStores
    /\ agg = AggNone
    /\ queries = {}
    /\ resp = NoResponse
    /\ tariff \in StatusTariffs
    /\ cfg \in StatusConfigs
    /\ \E g \in {{OtherSample(StatusStart)}} : \E rows \in StartRows :
          wx = [WxIdle EXCEPT !.clock = StatusStart, !.gens = g, !.rows = rows]

StatusNext ==
    \/ Tick
    \/ (\E r \in Reqs : StatusGet(r))
    \/ (\E r \in Reqs : WeatherLookup(r))
    \/ (\E r \in Reqs : WeatherFresh(r))
    \/ (\E r \in Reqs : WeatherFetch(r))
    \/ (\E r \in Reqs : WeatherSave(r))
    \/ (\E r \in Reqs : StatusEstimate(r))
    \/ (\E r \in Reqs : StatusLatest(r))
    \/ (\E r \in Reqs : StatusTariff(r))
    \/ (\E r \in Reqs : StatusRecent(r))
    \/ (\E r \in Reqs : StatusInsert(r))
    \/ SettingsPut
    \/ SolarConfigPut
    \/ TelemetryUpload
    \/ DeviceDestroy

SpecStatus == StatusInit /\ [][StatusNext]_vars

\* the user's samples created within the 5 minutes before t
OwnRecent(gens, t) == {g \in gens : g.user = User /\ t - g.created_at <= RecentMinutes}

\* C14: when the snapshot is missing or stale and the provider fetch fails, the
\* failure propagates out of get_weather and out of the status request: the
\* request ends without an estimate, it has stored no sample, and it has left
\* the weather cache, a stale snapshot and its fetchedAt included, as it was, so
\* that the next request finds the same snapshot and tries the provider again.
C14_ProviderFailurePropagates ==
    [][\A r \in Reqs :
          LET q  == wx.reqs[r]
              q2 == wx'.reqs[r]
          IN  /\ (Steps(r) /\ q.pc = "fetch") =>
                    /\ q.before = None \/ ~is_fresh(q.before[1], q.checked_at)
                    /\ IF q2.answer # None /\ q2.answer[1].ok THEN q2.pc = "save"
                       ELSE /\ q2.pc = "failed"
                            /\ q2.out = [kind |-> "error", err |-> "RequestException"]
                            /\ q2.stored = 0
                            /\ wx'.gens = wx.gens
                            /\ wx'.rows = wx.rows
              /\ (Steps(r) /\ q.pc \in {"lookup", "fresh", "fetch"}) =>
                    /\ wx'.rows = wx.rows
                    /\ wx'.gens = wx.gens
                    /\ q2.stored = 0]_vars

\* C14 witness: a request failed on the provider after it had found the stored
\* snapshot stale; the stale snapshot is still there and the user has no sample
C14_Witness ==
    \E r \in Reqs :
        /\ wx.reqs[r].pc = "failed"
        /\ wx.reqs[r].out = [kind |-> "error", err |-> "RequestException"]
        /\ wx.reqs[r].before # None
        /\ wx.rows = <<wx.reqs[r].before[1]>>
        /\ Age(wx.reqs[r].before, wx.clock) >= MaxAgeMinutes
        /\ \A g \in wx.gens : g.user # User

\* C15: if inserting the sample fails, the request still succeeds and returns the
\* solar_kw, home_kw, grid_import_kw, savings and cloud cover it computed before
\* the insert, the same as when the insert succeeds; only the sample is missing.
C15_InsertFailureSwallowed ==
    [][\A r \in Reqs :
          (Steps(r) /\ wx.reqs[r].pc = "insert") =>
              /\ wx'.reqs[r].pc = "done"
              /\ wx'.reqs[r].out = wx.reqs[r].out
              /\ wx'.reqs[r].out.kind = "status"
              /\ wx'.reqs[r].out.enabled
              /\ wx'.reqs[r].stored = 0 => wx'.gens = wx.gens
              /\ wx'.rows = wx.rows]_vars

\* C15 witness: a request completed with an estimate, found no recent sample and
\* stored none
C15_Witness ==
    \E r \in Reqs :
        /\ wx.reqs[r].pc = "done"
        /\ wx.reqs[r].out.kind = "status"
        /\ wx.reqs[r].out.enabled
        /\ wx.reqs[r].out.solar_kw > 0
        /\ ~wx.reqs[r].recent
        /\ wx.reqs[r].stored = 0
        /\ \A g \in wx.gens : g.user # User

\* request r ends in this step
Ends(r) == Steps(r) /\ wx'.reqs[r].pc \in {"done", "failed"}

\* the user's samples, pairwise more than 5 minutes apart
OwnSamplesApart(gens) ==
    \A g \in gens : \A h \in gens :
        (g.user = User /\ h.user = User /\ g.id # h.id)
            => Abs(g.created_at - h.created_at) > RecentMinutes

\* C17 as stated: with requests one at a time, a request stores a sample if and
\* only if the user has no stored sample created within the preceding 5 minutes;
\* so every two samples of the user are more than 5 minutes apart, and samples
\* of other users never suppress an insert.
C17_Original ==
    [][~wx'.overlapped =>
          /\ \A r \in Reqs :
                Ends(r) => (wx'.reqs[r].stored # 0 <=> OwnRecent(wx.gens, wx.clock) = {})
          /\ OwnSamplesApart(wx'.gens)]_vars

\* C17 amended: with requests one at a time, a request stores a sample only if
\* the user has no stored sample created within the preceding 5 minutes, and it
\* stores exactly one when, besides, solar is enabled, the weather and the
\* estimate are obtained and the insert does not fail; a request that ends
\* before the recency check, or whose insert fails, stores none.  Every two
\* samples of the user are more than 5 minutes apart, and samples of other users
\* never suppress an insert.
C17_StoresOnlyWithoutRecent ==
    [][~wx'.overlapped =>
          /\ \A r \in Reqs :
                LET q  == wx.reqs[r]
                    q2 == wx'.reqs[r]
                IN  /\ (Steps(r) /\ q.pc # "insert") =>
                          (q2.stored = 0 /\ wx'.gens = wx.gens)
                    /\ (Steps(r) /\ q.pc = "recent") =>
                          /\ q2.recent <=> OwnRecent(wx.gens, wx.clock) # {}
                          /\ q2.pc = IF q2.recent THEN "done" ELSE "insert"
                    /\ (Steps(r) /\ q.pc = "insert") =>
                          /\ ~q.recent
                          /\ OwnRecent(wx.gens, wx.clock) = {}
                          /\ q2.stored # 0 =>
                                (\E g \in wx'.gens :
                                    /\ g.id = q2.stored
                                    /\ g.user = User
                                    /\ g.created_at = wx.clock
                                    /\ g \notin wx.gens
                                    /\ wx'.gens = wx.gens \cup {g})
                          /\ q2.stored = 0 => wx'.gens = wx.gens
          /\ OwnSamplesApart(wx'.gens)]_vars

\* C17 witness: with no two requests overlapping, the user's only sample was
\* stored in the minute of the other user's sample, and a request that found it
\* exactly 5 minutes later stored nothing
C17_Witness ==
    /\ ~wx.overlapped
    /\ \E g \in wx.gens : \E h \in wx.gens :
          /\ g.user = User /\ h.user = Other /\ g.created_at = h.created_at
          /\ wx.clock - g.created_at = RecentMinutes
          /\ \A k \in wx.gens : k.user = User => k = g
    /\ \E r \in Reqs : wx.reqs[r].pc = "done" /\ wx.reqs[r].recent /\ wx.reqs[r].stored = 0

\* C18: when two requests of the user interleave between the recency check and
\* the insert both may insert; this is tolerated: each request stores at most
\* one sample, no step removes or merges a stored sample, and a request that
\* reached the insert completes successfully with the response it computed.
C18_DuplicateTolerated ==
    [][/\ wx.gens \subseteq wx'.gens
       /\ Cardinality(wx'.gens \ wx.gens) <= 1
       /\ \A r \in Reqs :
            /\ (Steps(r) /\ wx.reqs[r].pc # "insert") => wx'.gens = wx.gens
            /\ (Steps(r) /\ wx.reqs[r].pc = "insert") =>
                /\ wx'.reqs[r].pc = "done"
                /\ wx'.reqs[r].out = wx.reqs[r].out
                /\ wx'.reqs[r].out.kind = "status"
                /\ wx'.reqs[r].stored # 0 =>
                      (\E g \in wx'.gens \ wx.gens : g.id = wx'.reqs[r].stored)]_vars

\* C18 witness: both requests are done, each stored its own sample, and the two
\* samples of the user are less than 5 minutes apart
C18_Witness ==
    /\ \A r \in Reqs : wx.reqs[r].pc = "done" /\ wx.reqs[r].stored # 0
    /\ wx.reqs[1].stored # wx.reqs[2].stored
    /\ \E g \in wx.gens : \E h \in wx.gens :
          /\ g.id = wx.reqs[1].stored
          /\ h.id = wx.reqs[2].stored
          /\ g.user = User /\ h.user = User
          /\ Abs(g.created_at - h.created_at) < RecentMinutes

----------------------------------------------------------------------------
(* SpecRange: the range and history requests and their parameters *)

\* a query parameter string is a sequence of runs <<c, n>>: the character of
\* code point c, n times in a row (n >= 1)
Str(chars) == [k \in 1..Len(chars) |-> <<chars[k], 1>>]

\* the code points of the digits zero: int() takes every decimal digit of
\* Unicode (general category Nd), and the ten digits of a script follow its zero
DigitZeros ==
    {48, 1632, 1776, 1984, 2406, 2534, 2662, 2790, 2918, 3046, 3174, 3302, 3430, 3558,
     3664, 3792, 3872, 4160, 4240, 6112, 6160, 6470, 6608, 6784, 6800, 6992, 7088, 7232,
     7248, 42528, 43216, 43264, 43472, 43504, 43600, 44016, 65296, 66720, 68912, 69734,
     69872, 69942, 70096, 70384, 70736, 70864, 71248, 71360, 71472, 71904, 72016, 72784,
     73040, 73120, 92768, 92864, 93008, 120782, 120792, 120802, 120812, 120822, 123200,
     123632, 125264, 130032}

IsDigit(c) == \E z \in DigitZeros : c \in z..(z + 9)

DigitValue(c) == c - (CHOOSE z \in DigitZeros : c \in z..(z + 9))

\* the white space int() strips: tab, newline, vertical tab, form feed, carriage
\* return, blank, and the white space of Unicode beyond ASCII (next line,
\* no-break space, the spaces of general category Zs, line and paragraph
\* separator).  The separators 28 to 31, white space for str.isspace, are none
\* for int()
Whitespace ==
    {9, 10, 11, 12, 13, 32, 133, 160, 5760} \cup (8192..8202)
        \cup {8232, 8233, 8239, 8287, 12288}

\* "+" and "-"
Signs == {43, 45}

\* the strip of int(): leading and trailing white space
RECURSIVE lstrip(_)
lstrip(s) == IF s # <<>> /\ Head(s)[1] \in Whitespace THEN lstrip(Tail(s)) ELSE s

RECURSIVE rstrip(_)
rstrip(s) ==
    IF s # <<>> /\ s[Len(s)][1] \in Whitespace THEN rstrip(SubSeq(s, 1, Len(s) - 1)) ELSE s

\* min(20000, ..) and max(1, ..) of the limit
MaxLimit == 20000
MinLimit == 1

\* sys.get_int_max_str_digits(): int() raises ValueError on more digits
MaxStrDigits == 4300

\* Python integers do not overflow; here a magnitude above MaxLimit stands as
\* MaxLimit + 1, which the clamp treats as it treats every larger one
Saturated(v) == IF v > MaxLimit THEN MaxLimit + 1 ELSE v

\* v after n more digits of value d
RECURSIVE shifted(_, _, _)
shifted(v, d, n) ==
    IF n = 0 \/ v > MaxLimit \/ (v = 0 /\ d = 0) THEN v
    ELSE shifted(Saturated(10 * v + d), d, n - 1)

\* the value of the digits of s after a digit, read left to right with v so far:
\* a single underscore may stand between two digits; None when s is no such string
RECURSIVE digits_value(_, _)
digits_value(s, v) ==
    IF s = <<>> THEN Some(v)
    ELSE IF IsDigit(Head(s)[1])
         THEN digits_value(Tail(s), shifted(v, DigitValue(Head(s)[1]), Head(s)[2]))
    ELSE IF Head(s) = <<95, 1>> /\ Len(s) >= 2 /\ IsDigit(s[2][1])
         THEN digits_value(Tail(s), v)
    ELSE None

\* the number of digits of s
RECURSIVE digit_count(_)
digit_count(s) ==
    IF s = <<>> THEN 0
    ELSE (IF IsDigit(Head(s)[1]) THEN Head(s)[2] ELSE 0) + digit_count(Tail(s))

\* s without its first character
rest(s) == IF Head(s)[2] = 1 THEN Tail(s) ELSE <<(<<Head(s)[1], Head(s)[2] - 1>>)>> \o Tail(s)

\* int(limit_str): None stands for ValueError
int(s) ==
    LET t == rstrip(lstrip(s))
        signed == t # <<>> /\ Head(t)[1] \in Signs
        d == IF signed THEN rest(t) ELSE t
        v == IF d = <<>> \/ ~IsDigit(Head(d)[1]) THEN None ELSE digits_value(d, 0)
    IN  IF v = None \/ digit_count(d) > MaxStrDigits THEN None
        ELSE IF signed /\ Head(t)[1] = 45 THEN Some(0 - v[1]) ELSE v

Max(a, b) == IF a >= b THEN a ELSE b

\* the mutant of clamp_limit that rejects what lies outside [1, 20000]
clamp_limit_rejecting(limit_str) ==
    LET v == int(limit_str)
    IN  IF v = None THEN None
        ELSE IF v[1] < MinLimit \/ v[1] > MaxLimit THEN None ELSE v

\* try: limit = max(1, min(20000, int(limit_str))) except ValueError
clamp_limit(limit_str) ==
    LET v == int(limit_str)
    IN  IF v = None THEN None ELSE Some(Max(MinLimit, Min(MaxLimit, v[1])))

\* request.query_params.get("limit", "200")
limit_param(limit) == IF limit = None THEN Str(<<50, 48, 48>>) ELSE limit[1]

\* a from / to parameter stands as the minute on the clock it names when it is a
\* date and time, as Malformed when it does not have the form of one, and as
\* Invalid when it has the form but names no date (30 February)
Malformed == 0 - 1
Invalid == 0 - 2

\* parse_datetime: None for a malformed string, ValueError for an invalid one
parse_datetime(d) ==
    [err |-> IF d = Invalid THEN "ValueError" ELSE "",
     ret |-> IF d \in {Malformed, Invalid} THEN None ELSE Some(d)]

\* the parsed bound of an absent or empty parameter: no filter, and no error
parsed(param) == IF param = None THEN [err |-> "", ret |-> None] ELSE parse_datetime(param[1])

\* qs.filter(created_at__gte=from).filter(created_at__lte=to) of SolarGeneration
\* rows in ascending created_at order, which the clock stamped; an absent bound
\* (None) does not filter
between(rows, from, to) ==
    SelectSeq(rows, LAMBDA r : /\ (from # None => r.created_at >= from[1])
                               /\ (to # None => r.created_at <= to[1]))

\* created_at of a TelemetryReading row, as a minute on the clock
reading_time(r) == clock_of(r.created_at)

\* the same filters of TelemetryReading rows in ascending created_at order
\* (telemetry/views.py 87-99, solar/views.py 165-173)
readings_between(rows, from, to) ==
    SelectSeq(rows, LAMBDA r : /\ (from # None => reading_time(r) >= from[1])
                               /\ (to # None => reading_time(r) <= to[1]))

\* list(qs.order_by("-created_at")[:limit]) reversed: the limit most recent
\* rows, in ascending created_at order
latest_rows(rows, limit) == SubSeq(rows, Max(1, Len(rows) - limit + 1), Len(rows))

\* the answer to the parameters that both requests validate in this order (lines
\* 87-105 and 125-143), None when they pass
invalid_params(d_from, d_to, limit) ==
    IF rng.from # None /\ d_from.err # "" THEN Some(Reply(500, d_from.err))
    ELSE IF rng.from # None /\ d_from.ret = None
         THEN Some(Reply(400, "Invalid 'from' datetime."))
    ELSE IF rng.to # None /\ d_to.err # "" THEN Some(Reply(500, d_to.err))
    ELSE IF rng.to # None /\ d_to.ret = None
         THEN Some(Reply(400, "Invalid 'to' datetime."))
    ELSE IF limit = None THEN Some(Reply(400, "Invalid limit."))
    ELSE None

\* the request is over with the response out
answered(q, out) == [q EXCEPT !.pc = "done", !.out = out]

\* TelemetryRangeAPI.get up to the evaluation of the readings queryset (lines
\* 77-105): the device is looked up, with the id that int() makes of device_id
\* (filter(id=..) raises ValueError when it makes none, which nothing catches),
\* and the parameters are validated
RangeGet ==
    /\ rng.pc = "call"
    /\ rng.endpoint = "range"
    /\ LET device_id == rng.device_id
           id     == IF device_id \in {None, Some(<<>>)} THEN None ELSE int(device_id[1])
           device == IF id # None /\ id[1] \in devices THEN id ELSE None
           d_from == parsed(rng.from)
           d_to   == parsed(rng.to)
           limit  == clamp_limit(limit_param(rng.limit))
           bad    == invalid_params(d_from, d_to, limit)
           q      == [rng EXCEPT !.began = Len(wx.writes), !.device = device]
       IN  rng' = IF device_id \in {None, Some(<<>>)}
                  THEN answered(q, Reply(400, "device_id is required."))
                  ELSE IF id = None THEN answered(q, Reply(500, "ValueError"))
                  ELSE IF device = None THEN answered(q, Reply(404, "Device not found."))
                  ELSE IF bad # None THEN answered(q, bad[1])
                  ELSE [q EXCEPT !.pc = "readings"]
    /\ UNCHANGED <<acc, aggVars, tier, sol, cfg, wx>>

\* items = list(qs[:limit]) (line 107): the readings of the device are read, and
\* answered in ascending time
RangeReadings ==
    /\ rng.pc = "readings"
    /\ LET limit == clamp_limit(limit_param(rng.limit))
           items == latest_rows(readings_between(store[rng.device[1]], parsed(rng.from).ret,
                                                 parsed(rng.to).ret), limit[1])
       IN  rng' = answered(rng, Reply(200, items))
    /\ UNCHANGED <<acc, aggVars, tier, sol, cfg, wx>>

\* SolarGeneration rows of a user in ascending created_at order
RECURSIVE SortGens(_)
SortGens(G) ==
    IF G = {} THEN <<>>
    ELSE LET first == CHOOSE g \in G : \A h \in G : g.created_at <= h.created_at
         IN  <<first>> \o SortGens(G \ {first})

\* the frame of the history request's get_weather call: the first
HistoryFrame == CHOOSE r \in Reqs : \A o \in Reqs : r <= o

\* SolarHistoryAPI.get up to the evaluation of the samples queryset (lines
\* 118-143): the enabled SolarConfig row of the user is read, and the parameters
\* are validated
HistoryGet ==
    /\ rng.pc = "call"
    /\ rng.endpoint = "history"
    /\ LET d_from == parsed(rng.from)
           d_to   == parsed(rng.to)
           limit  == clamp_limit(limit_param(rng.limit))
           bad    == invalid_params(d_from, d_to, limit)
           q      == [rng EXCEPT !.began = Len(wx.writes), !.cfg = cfg]
       IN  rng' = IF ~cfg.enabled THEN answered(q, Reply(400, "Solar not enabled."))
                  ELSE IF bad # None THEN answered(q, bad[1])
                  ELSE [q EXCEPT !.pc = "stored"]
    /\ UNCHANGED <<acc, aggVars, tier, sol, cfg, wx>>

\* stored_data = list(qs[:limit]) (lines 145-158): the samples of the user are
\* read; when there is one they are the answer, and get_weather is called with
\* the coordinates of the row read at line 118 when there is none
HistoryStored ==
    /\ rng.pc = "stored"
    /\ LET limit == clamp_limit(limit_param(rng.limit))
           own   == SortGens({g \in wx.gens : g.user = User})
           stored_data == latest_rows(between(own, parsed(rng.from).ret, parsed(rng.to).ret),
                                      limit[1])
       IN  IF stored_data # <<>>
           THEN /\ rng' = answered(rng, Reply(200,
                              [k \in 1..Len(stored_data) |->
                                  [timestamp |-> stored_data[k].created_at,
                                   solar_kw |-> stored_data[k].solar_kw,
                                   home_kw |-> stored_data[k].home_kw,
                                   grid_import_kw |-> stored_data[k].grid_import_kw]]))
                /\ wx' = wx
           ELSE /\ rng' = [rng EXCEPT !.pc = "weather"]
                /\ wx' = [wx EXCEPT !.reqs[HistoryFrame] =
                             Started("history", rng.cfg.place, rng.cfg.installed_capacity_kw)]
    /\ UNCHANGED <<acc, aggVars, tier, sol, cfg>>

\* the computations of one fallback history whose result hangs on the double:
\* the estimate at an instant, home_kw of a power, grid_import_kw of a power at
\* an instant; equal inputs give equal results, so they are named by the inputs
fallback_ups(readings, q) ==
    LET weather == q.weather[1]
        ties(reading) ==
            (IF TRUE \in estimate_ups(q.capacity_kw, weather.cloud_cover,
                                      reading_time(reading), weather.sunrise, weather.sunset)
             THEN {<<"solar", reading_time(reading), 0>>} ELSE {})
            \cup (IF IsTie(reading.power, 10)
                  THEN {<<"home", reading.power, 0>>,
                        <<"grid", reading.power, reading_time(reading)>>}
                  ELSE {})
    IN  SUBSET UNION {ties(readings[k]) : k \in 1..Len(readings)}

\* one entry of the fallback history (lines 179-197); the results named in ups
\* go up where they hang on the double.  With solar_kw = 0.0 the difference
\* under grid_import_kw is reading.power / 1000 itself, rounded as home_kw is
fallback_entry(reading, q, ups) ==
    LET weather == q.weather[1]
        est == estimate_solar_kw(q.capacity_kw, weather.cloud_cover, reading_time(reading),
                                 weather.sunrise, weather.sunset,
                                 <<"solar", reading_time(reading), 0>> \in ups)
        home_up == <<"home", reading.power, 0>> \in ups
        grid_up == IF est.kw = 0 THEN home_up
                   ELSE <<"grid", reading.power, reading_time(reading)>> \in ups
    IN  [err |-> est.err,
         timestamp |-> reading_time(reading),
         solar_kw |-> est.kw,
         home_kw |-> RoundTo(reading.power, 10, home_up) \div 10,
         grid_import_kw |-> RoundTo(Max0(reading.power - 10 * est.kw), 10, grid_up) \div 10]

\* SolarHistoryAPI.get after get_weather (lines 162-199): its exception leaves
\* the request, and so does that of an estimate; readings = list(qs_telemetry[:limit])
\* reads the readings of all the user's devices
HistoryFallback ==
    LET q == wx.reqs[HistoryFrame]
    IN  /\ rng.pc = "weather"
        /\ q.pc \in {"fallback", "failed"}
        /\ IF q.pc = "failed"
           THEN rng' = answered(rng, Reply(500, q.out.err))
           ELSE LET limit == clamp_limit(limit_param(rng.limit))
                IN  \E all \in user_readings :
                       LET readings == latest_rows(readings_between(all, parsed(rng.from).ret,
                                                                    parsed(rng.to).ret),
                                                   limit[1])
                       IN  \E ups \in fallback_ups(readings, q) :
                              LET history == [k \in 1..Len(readings) |->
                                                 fallback_entry(readings[k], q, ups)]
                              IN  IF \E k \in 1..Len(readings) : history[k].err # ""
                                  THEN rng' = answered(rng, Reply(500, "ZeroDivisionError"))
                                  ELSE rng' = answered(rng, Reply(200,
                                                 [k \in 1..Len(readings) |->
                                                     [timestamp |-> history[k].timestamp,
                                                      solar_kw |-> history[k].solar_kw,
                                                      home_kw |-> history[k].home_kw,
                                                      grid_import_kw |->
                                                          history[k].grid_import_kw]]))
        /\ wx' = [wx EXCEPT !.reqs[HistoryFrame] = [q EXCEPT !.pc = "done"]]
        /\ UNCHANGED <<acc, aggVars, tier, sol, cfg>>

\* the longest limit string drawn in full
MaxLimitLen == 2

\* "0", "1", "-", blank, "_", "a", vertical tab, no-break space, the
\* Arabic-Indic digit one and the file separator
LimitChars == {48, 49, 45, 32, 95, 97, 11, 160, 1633, 28}

\* the limit parameters: absent, every string of at most MaxLimitLen characters,
\* 20000, 20001, 3000000000, +3, 1_0, and "1" 4300 and 4301 times
LimitParams ==
    {None} \cup {Some(Str(s)) : s \in SeqsUpTo(LimitChars, MaxLimitLen)}
           \cup {Some(Str(<<50, 48, 48, 48, 48>>)), Some(Str(<<50, 48, 48, 48, 49>>)),
                 Some(<<(<<51, 1>>), <<48, 9>>>>),
                 Some(Str(<<43, 51>>)), Some(Str(<<49, 95, 48>>)),
                 Some(<<(<<49, MaxStrDigits>>)>>), Some(<<(<<49, MaxStrDigits + 1>>)>>)}

\* the instant at minute t of the clock
At(t) == [Now0 EXCEPT !.tod = @ + t]

\* the readings of device 1: minutes 10, 20 and 30, 1500.4 W; of device 2: minute
\* 20, 2500.4 W
RangeRows ==
    [d \in DeviceIds |->
        IF d = 1
        THEN [k \in 1..3 |-> [created_at |-> At(10 * k), energy_kwh |-> k * KWh,
                              power |-> 15004]]
        ELSE <<[created_at |-> At(20), energy_kwh |-> KWh, power |-> 25004]>>]

\* the user's stored samples: none, or minutes 10 and 20
RangeGens ==
    {{}, {[id |-> k, user |-> User, created_at |-> 10 * k, solar_kw |-> 1000, home_kw |-> 1500,
           grid_import_kw |-> 500, cloud_cover |-> 0] : k \in 1..2}}

\* the cache when the history is asked for: a clear 60-minute day fetched 5
\* minutes ago for the first place, or empty
FreshCache == <<CacheRow(1, 0, 0, 60, MaxAgeMinutes - ClockStep)>>
RangeCaches == {FreshCache, <<>>}

\* from / to parameters: absent, malformed, invalid, minute 20
Bounds == {None, Some(Malformed), Some(Invalid), Some(20)}

\* the device_id parameters: absent, empty, "1", "3" (no device of the user)
\* and "x"
RangeDeviceIds == {None, Some(<<>>), Some(Str(<<49>>)), Some(Str(<<51>>)), Some(Str(<<120>>))}

\* a few limits: absent, "1" and "0"
FewLimits == {None, Some(Str(<<49>>)), Some(Str(<<48>>))}

\* the parameters drawn: every limit with the time bounds absent, the device
\* one of the user's and the cache fresh, and every pair of time bounds, every
\* device_id and every cache with one of the few limits
RangeParams ==
    {<<lim, None, None, Some(Str(<<49>>))>> : lim \in LimitParams}
    \cup {<<lim, f, t, dev>> : lim \in FewLimits, f \in Bounds, t \in Bounds,
                               dev \in RangeDeviceIds}

\* a request that has not begun: its parameters, and for locals the number of
\* writes committed when it began, the device it found and the solar
\* configuration it read
RangeCall(endpoint, device_id, par) ==
    [pc |-> "call", endpoint |-> endpoint, device_id |-> device_id,
     from |-> par[2], to |-> par[3], limit |-> par[1], out |-> Reply(0, <<>>),
     began |-> 0, device |-> None, cfg |-> CfgNone]

RangeInit ==
    /\ acc = AccIdle
    /\ tier = TierIdle
    /\ sol = SolIdle
    /\ now = Now0
    /\ devices = DeviceIds
    /\ store = RangeRows
    /\ tariff = 0
    /\ agg = AggNone
    /\ queries = {}
    /\ resp = NoResponse
    /\ \E par \in RangeParams :
          \/ /\ rng = RangeCall("range", par[4], par)
             /\ cfg = CfgNone
             /\ wx = [WxIdle EXCEPT !.clock = MaxAgeMinutes]
          \/ /\ rng = RangeCall("history", None, par)
             /\ cfg \in StatusConfigs
             /\ \E g \in RangeGens :
                \E rows \in (IF par[1] \in FewLimits THEN RangeCaches ELSE {FreshCache}) :
                   wx = [WxIdle EXCEPT !.clock = MaxAgeMinutes, !.gens = g, !.rows = rows]

RangeNext ==
    \/ RangeGet
    \/ RangeReadings
    \/ HistoryGet
    \/ HistoryStored
    \/ WeatherLookup(HistoryFrame)
    \/ WeatherFresh(HistoryFrame)
    \/ WeatherFetch(HistoryFrame)
    \/ WeatherSave(HistoryFrame)
    \/ HistoryFallback
    \/ TelemetryUpload
    \/ DeviceDestroy
    \/ SolarConfigPut

SpecRange == RangeInit /\ [][RangeNext]_vars

RangeDone == rng.pc = "done"

\* no write has been committed since the request began
RangeNoRace == rng.began = Len(wx.writes)

\* the request passes every validation that precedes the limit
ReachedLimit ==
    /\ rng.from \notin {Some(Malformed), Some(Invalid)}
    /\ rng.to \notin {Some(Malformed), Some(Invalid)}
    /\ IF rng.endpoint = "range"
       THEN /\ rng.device_id \notin {None, Some(<<>>)}
            /\ int(rng.device_id[1]) # None
            /\ int(rng.device_id[1])[1] \in devices
       ELSE cfg.enabled

\* s is an integer literal: white space, an optional sign, digits with single
\* underscores between them, white space; i..j are the positions of the runs of
\* its digits
DigitSpan(s) ==
    {<<i, j>> \in (1..Len(s)) \X (1..Len(s)) :
        /\ i <= j
        /\ IsDigit(s[i][1])
        /\ IsDigit(s[j][1])
        /\ \A k \in i..j :
              \/ IsDigit(s[k][1])
              \/ (s[k] = <<95, 1>> /\ IsDigit(s[k - 1][1]) /\ IsDigit(s[k + 1][1]))
        /\ \A k \in (j + 1)..Len(s) : s[k][1] \in Whitespace
        /\ \/ \A k \in 1..(i - 1) : s[k][1] \in Whitespace
           \/ /\ i > 1
              /\ s[i - 1][1] \in Signs
              /\ s[i - 1][2] = 1
              /\ \A k \in 1..(i - 2) : s[k][1] \in Whitespace}

IsNumeric(s) == DigitSpan(s) # {}

\* the runs of the digits of a numeric s
DigitRuns(s) ==
    LET span == CHOOSE sp \in DigitSpan(s) : TRUE
    IN  SelectSeq(SubSeq(s, span[1], span[2]), LAMBDA r : IsDigit(r[1]))

\* the digits a sequence of runs holds
RunsLen(runs) == SumOver(DOMAIN runs, [k \in DOMAIN runs |-> runs[k][2]])

\* the runs of digits without the leading zeros
RECURSIVE Significant(_)
Significant(runs) ==
    IF runs # <<>> /\ DigitValue(Head(runs)[1]) = 0 THEN Significant(Tail(runs)) ELSE runs

\* the characters of a sequence of runs
RECURSIVE Expand(_)
Expand(runs) ==
    IF runs = <<>> THEN <<>>
    ELSE [k \in 1..Head(runs)[2] |-> Head(runs)[1]] \o Expand(Tail(runs))

\* the integer a numeric s denotes; a magnitude of more than 5 digits, which is
\* above 20000, counts as 20001
NumericValue(s) ==
    LET span == CHOOSE sp \in DigitSpan(s) : TRUE
        i == span[1]
        n == RunsLen(Significant(DigitRuns(s)))
        magnitude ==
            IF n > 5 THEN MaxLimit + 1
            ELSE LET digits == Expand(Significant(DigitRuns(s)))
                 IN  SumOver(1..n, [k \in 1..n |-> DigitValue(digits[k]) * Pow10(n - k)])
    IN  IF i > 1 /\ s[i - 1][1] = 45 THEN 0 - magnitude ELSE magnitude

\* the limit the request asks for: 200 when the parameter is absent
AskedNumeric == rng.limit = None \/ IsNumeric(rng.limit[1])
Asked == IF rng.limit = None THEN 200 ELSE NumericValue(rng.limit[1])

\* the limit is one int() converts: numeric, of 4300 digits at most
AskedConverts ==
    rng.limit = None
        \/ (IsNumeric(rng.limit[1]) /\ RunsLen(DigitRuns(rng.limit[1])) <= MaxStrDigits)

\* the limit asked for, clamped into [1, 20000]
Clamped == IF Asked < 1 THEN 1 ELSE IF Asked > 20000 THEN 20000 ELSE Asked

\* the times of the rows a successful request chooses from, in ascending order:
\* the device's readings in the time bounds, or for the history the user's
\* stored samples in the time bounds and, when there is none, the readings of
\* all the user's devices in the time bounds
InBounds(times) ==
    SelectSeq(times, LAMBDA t : /\ (rng.from # None => t >= rng.from[1])
                                /\ (rng.to # None => t <= rng.to[1]))
ReadingTimes(rows) == [k \in 1..Len(rows) |-> clock_of(rows[k].created_at)]
SampleTimes == LET own == SortGens({g \in wx.gens : g.user = User})
               IN  [k \in 1..Len(own) |-> own[k].created_at]
Available ==
    IF rng.endpoint = "range"
    THEN InBounds(ReadingTimes(store[int(rng.device_id[1])[1]]))
    ELSE IF InBounds(SampleTimes) # <<>> THEN InBounds(SampleTimes)
         ELSE InBounds(ReadingTimes(CHOOSE all \in user_readings : TRUE))

TimeOf(x) == IF "timestamp" \in DOMAIN x THEN x.timestamp ELSE clock_of(x.created_at)

\* C12 as stated: a limit that is non-numeric, or numeric but outside [1, 20000],
\* is answered with the invalid-limit error and no data; only limits inside
\* [1, 20000] (200 when absent) produce a result list.
C12_Original ==
    (RangeDone /\ RangeNoRace /\ ReachedLimit) =>
        /\ (~AskedNumeric \/ Asked < 1 \/ Asked > 20000)
              => (rng.out.status = 400 /\ rng.out.body = "Invalid limit.")
        /\ rng.out.status = 200 => (AskedNumeric /\ Asked >= 1 /\ Asked <= 20000)

\* C12 amended: a limit int() does not convert (non-numeric, or of more than
\* 4300 digits) is answered with the invalid-limit error and no data once the
\* validations before the limit are passed, and no other limit is; a limit int()
\* converts is never rejected but clamped into [1, 20000] (below 1 counts as 1,
\* above 20000 as 20000, absent as 200): a successful answer lists no more rows
\* than the clamped limit and, when no write was committed while the request
\* ran, the min(clamped limit, available) most recent rows in ascending time.
C12_LimitClamped ==
    RangeDone =>
        /\ rng.out = Reply(400, "Invalid limit.") => ~AskedConverts
        /\ rng.out.status = 200 => (AskedConverts /\ Len(rng.out.body) <= Clamped)
        /\ (RangeNoRace /\ ReachedLimit) =>
              IF ~AskedConverts
              THEN rng.out = Reply(400, "Invalid limit.")
              ELSE /\ rng.out.status # 400
                   /\ rng.endpoint = "range" => rng.out.status = 200
                   /\ rng.out.status = 200 =>
                         LET n == Min(Clamped, Len(Available))
                         IN  /\ Len(rng.out.body) = n
                             /\ \A k \in 1..n :
                                   TimeOf(rng.out.body[k]) = Available[Len(Available) - n + k]

\* C12 witness: a limit below 1 was answered with the single most recent of
\* three available rows
C12_Witness ==
    /\ RangeDone
    /\ RangeNoRace
    /\ ReachedLimit
    /\ AskedNumeric
    /\ Asked < 1
    /\ rng.out.status = 200
    /\ Len(Available) = 3
    /\ Len(rng.out.body) = 1
    /\ TimeOf(rng.out.body[1]) = Available[3]

----------------------------------------------------------------------------
(* The protection status and the tier resolver together *)

\* C19: whenever the tariff calculator reports is_protected = true the current
\* month's units are below 200, so the calculated tariff is one of 3.95, 7.74 or
\* 13.01 and never missing; the response is "unable to calculate" (no tariff)
\* exactly when the user is unprotected and the current month's units are <= 50.
C19_ProtectedImpliesLowTier ==
    resp.kind = "tariff" =>
        /\ resp.is_protected = Some(TRUE) =>
              /\ resp.current_month_units < 200 * KWh
              /\ resp.calculated_tariff \in {Some(395), Some(774), Some(1301)}
        /\ resp.message = "Unable to calculate tariff"
              <=> (resp.is_protected = Some(FALSE) /\ resp.current_month_units <= 50 * KWh)
        /\ resp.message = "Unable to calculate tariff" => resp.calculated_tariff = None
        /\ (resp.is_protected # None /\ resp.calculated_tariff = None)
              => resp.message = "Unable to calculate tariff"

\* C19 witness: an unprotected user (200 kWh in an earlier month) with 0 units in
\* the current month gets no tariff
C19_Witness ==
    /\ TariffDone
    /\ resp.is_protected = Some(FALSE)
    /\ resp.current_month_units <= 50 * KWh
    /\ resp.calculated_tariff = None
    /\ resp.message = "Unable to calculate tariff"
    /\ \E k \in 2..6 : resp.monthly_usage[k].kwh >= 200 * KWh

----------------------------------------------------------------------------
(* SpecSplit: the samples of one device, month after month: the tariff        *)
(* calculator's get_monthly_usage makes one query per month, each a statement *)
(* of its own, and accumulates every month by itself                          *)

\* the most samples of the device
MaxSplit == 3

\* 0, 0.00004, 0.006, 0.011 and 1 kWh; 0.006 to 0.011 is a tie of round(.., 2)
SplitValues == {0, 4, 600, 1100, KWh}

\* the store of device 1 with the meter values s, a month passing after every
\* position in cuts: sample j is of day j of its month, and the last window is
\* the current month
SplitStore(s, cuts) ==
    [d \in DeviceIds |->
        IF d # 1 THEN <<>>
        ELSE [j \in 1..Len(s) |->
                LET month == MonthsBefore(Now0, Cardinality({c \in cuts : c >= j}))
                IN  [created_at |-> Dt(month.year, month.month, j, 0), energy_kwh |-> s[j],
                     power |-> 0]]]

SplitInit ==
    /\ ExtIdle
    /\ acc = AccIdle
    /\ tier = TierIdle
    /\ sol = SolIdle
    /\ now = Now0
    /\ devices = {1}
    /\ tariff = 0
    /\ agg = AggNone
    /\ queries = {}
    /\ resp = NoResponse
    /\ \E s \in SeqsUpTo(SplitValues, MaxSplit) : \E cuts \in SUBSET (1..(Len(s) - 1)) :
          store = SplitStore(s, cuts)

SplitNext ==
    \/ TariffGet
    \/ DevicesList
    \/ ReadingsQuery
    \/ DeviceDestroy
    \/ TelemetryUpload

SpecSplit == SplitInit /\ [][SplitNext]_vars

\* the tariff calculator has answered
SplitDone == agg.pc = "done" /\ resp.kind = "tariff"

\* the meter values the query of the month i months back returned: its window;
\* none when the request made no such query
MonthWindow(i) ==
    IF \E q \in queries : q.fn = "usage" /\ q.i = i
    THEN Energies((CHOOSE q \in queries : q.fn = "usage" /\ q.i = i).rows)
    ELSE <<>>

\* the windows of the months i back and more, oldest first, as one sequence
RECURSIVE WindowsFrom(_)
WindowsFrom(i) ==
    IF i >= TariffMonths THEN <<>> ELSE WindowsFrom(i + 1) \o MonthWindow(i)

\* the combined window
Combined == WindowsFrom(0)

\* the windows that hold a sample
Held == {i \in 0..(TariffMonths - 1) : MonthWindow(i) # <<>>}

\* the sum of the per-month values
PartsSum == SumSeq(resp.monthly_usage, "kwh")

\* the positive deltas that span a window boundary: from the last sample before
\* a window to its first
BoundaryGain ==
    SumOver(Held, [i \in Held |->
                      LET before == WindowsFrom(i + 1)
                      IN  IF before = <<>> THEN 0
                          ELSE Max0(MonthWindow(i)[1] - before[Len(before)])])

\* accumulate over the combined window: the value of the month when one month
\* holds every sample, and either neighbour when the total is on a tie
WholeValues ==
    IF \E i \in Held : MonthWindow(i) = Combined
    THEN {resp.monthly_usage[(CHOOSE i \in Held : MonthWindow(i) = Combined) + 1].kwh}
    ELSE {accumulate(Combined, MonthDigits, ups) : ups \in {{}, {Combined}}}

\* C20 as stated: for every sample sequence and every split into contiguous
\* windows the sum of the per-month values is <= the value over the combined
\* window, with equality only when no positive delta spans a window boundary.
C20_Original ==
    SplitDone =>
        \E whole \in WholeValues :
            /\ PartsSum <= whole
            /\ PartsSum = whole => BoundaryGain = 0

\* C20 amended: the sum of the per-month values is the value over the combined
\* window of the samples the month queries returned less the positive deltas
\* spanning the window boundaries, up to the rounding of each of the k + 1
\* values to 2 decimals (0.005 each), k being the windows that hold a sample;
\* when every sample is a whole number of hundredths nothing is rounded, the sum
\* is <= the combined value and they are equal exactly when no positive delta
\* spans a boundary.  When no write is committed while the months are read the
\* samples returned are the samples stored.
C20_BoundaryDeltasDropped ==
    SplitDone =>
        LET k == Cardinality(Held)
            q == Quantum(MonthDigits)
        IN  /\ \A whole \in WholeValues :
                  /\ 2 * Abs(whole - BoundaryGain - PartsSum) <= (k + 1) * q
                  /\ (\A i \in DOMAIN Combined : Combined[i] % q = 0) =>
                        /\ PartsSum = whole - BoundaryGain
                        /\ PartsSum <= whole
                        /\ PartsSum = whole <=> BoundaryGain = 0
            /\ NoRace => Combined = Energies(store[1])

\* C20 witness: with no write while the months were read, two windows with a
\* rise of 1 kWh across the boundary, which neither window counts
C20_Witness ==
    /\ SplitDone
    /\ NoRace
    /\ Cardinality(Held) = 2
    /\ BoundaryGain = KWh
    /\ WholeValues = {KWh}
    /\ PartsSum = 0
    /\ Len(Combined) = 3

(***************************************************************************)
(* The monthly report: per-device breakdown against per-month reports      *)
(***************************************************************************)

\* the months of the report range that hold readings: the current month and the
\* oldest of the 12
BreakdownMonths == {0, ReportMonths - 1}

\* what a device gained within one of those months: device 1 nothing, 0.006,
\* 0.01 or 0.14 kWh, device 2 nothing, 0.14 or 0.15 kWh
BreakdownGains ==
    [d \in DeviceIds |-> IF d = 1 THEN {0, 600, 1000, 14000} ELSE {0, 14000, 15000}]

\* every device reports 0 at the first instant of each of those months and its
\* gain on the 15th
BreakdownStores ==
    {[d \in DeviceIds |->
         SortRows(UNION {{[created_at |-> Dt(MonthsBefore(Now0, b).year,
                                            MonthsBefore(Now0, b).month, 1, 0),
                           energy_kwh |-> 0, power |-> 0],
                          [created_at |-> Dt(MonthsBefore(Now0, b).year,
                                            MonthsBefore(Now0, b).month, 15, 0),
                           energy_kwh |-> g[<<d, b>>], power |-> 0]}
                            : b \in BreakdownMonths})]
        : g \in {f \in [DeviceIds \X BreakdownMonths
                             -> UNION {BreakdownGains[d] : d \in DeviceIds}] :
                    \A x \in DeviceIds \X BreakdownMonths : f[x] \in BreakdownGains[x[1]]}}

BreakdownInit ==
    /\ acc = AccIdle
    /\ tier = TierIdle
    /\ sol = SolIdle
    /\ rng = RngIdle
    /\ wx = WxIdle
    /\ now = Now0
    /\ agg = AggNone
    /\ queries = {}
    /\ resp = NoResponse
    /\ cfg = CfgNone
    /\ tariff \in ReportTariffs
    /\ devices = DeviceIds
    /\ store \in BreakdownStores

BreakdownNext ==
    \/ ReportGet
    \/ DevicesExist
    \/ SettingsGet
    \/ DevicesList
    \/ ReadingsQuery
    \/ SolarConfigFirst
    \/ DeviceDestroy
    \/ TelemetryUpload

SpecBreakdown == BreakdownInit /\ [][BreakdownNext]_vars

\* the sum over the entries of the breakdown of their kWh
BreakdownSum ==
    SumOver(DOMAIN resp.device_breakdown,
            [d \in DOMAIN resp.device_breakdown |-> resp.device_breakdown[d].kwh])

\* the sum over the months of the report kWh of the response
ReportsSum == SumSeq(resp.monthly_reports, "kwh")

\* the sum of the per-device-per-month values, each to 2 decimals
CellsSum(ups) ==
    SumOver(devices, [d \in devices |->
        SumOver(0..(ReportMonths - 1),
                [b \in 0..(ReportMonths - 1) |-> DeviceMonthKwh(d, b, ups)])])

\* C21: in one monthly-report response, no reading being stored while the
\* request runs (the clock of the model stays within one month), the sum over
\* devices of the breakdown kWh equals the sum over the 12 months of the report
\* kWh, which is the reported total_kwh; when nothing at all is written while
\* the request runs, both are the sum of the per-device-per-month values
\* rounded to 2 decimals.
C21_BreakdownMatchesReports ==
    (ReportDone /\ resp.monthly_reports # <<>> /\ ~Raced({"upload"})) =>
        /\ Len(resp.monthly_reports) = ReportMonths
        /\ BreakdownSum = ReportsSum
        /\ ReportsSum = resp.total_kwh
        /\ NoRace =>
              /\ DOMAIN resp.device_breakdown = devices
              /\ \E ups \in SUBSET CellTies(ReportMonths) : BreakdownSum = CellsSum(ups)
====
